---- MODULE Spec2Model ----
(***************************************************************************)
(* A model of the AI-Jumpshot-Trainer core: the pose-based shot detector   *)
(* (src/src/video/shot_detector.py), the pre-roll video recorder           *)
(* (src/src/video/video_recorder.py) and the background shot analysis      *)
(* (src/src/session/shot_analyzer.py with the storage it writes to).       *)
(*                                                                         *)
(* Numbers.  The Python code works on floats; the model works on integers  *)
(* and keeps every comparison exact:                                       *)
(*   - normalised landmark coordinates and visibilities are hundredths     *)
(*     (50 is 0.5);                                                        *)
(*   - pixel positions are the integers int(x * width), int(y * height);   *)
(*   - a velocity is the triple <<dx, dy, dt>> standing for dx/dt, dy/dt,  *)
(*     and is compared with a threshold t/1000 as 1000*dy < t*dt;          *)
(*   - arm_extension_history holds the SQUARED forearm length in pixels,   *)
(*     and the comparison of the two square roots is decided exactly by    *)
(*     ExtensionIncreased.                                                 *)
(***************************************************************************)
EXTENDS Integers, Sequences, FiniteSets, TLC

\* Python's None where a string is expected, and where a position or a
\* velocity (a tuple) is expected
None == "None"
NoTuple == << >>

(***************************************************************************)
(* Bounds of the model.                                                    *)
(***************************************************************************)
\* deque(maxlen=20) of shot_detector.py:37-40, shortened so that eviction
\* happens within the episodes the model explores.  It stays at or above the
\* 7 samples process_frame asks for.
history_maxlen == 7
\* self.max_frames_after_release is 90 in shot_detector.py:45 (3 s at 30 fps);
\* the model counts a shorter window so that a whole episode, with its reset,
\* is explored.
max_frames_after_release == 2
\* VideoRecorder(buffer_seconds=3.0, fps=30) in video_recorder.py:13: the model
\* runs a recorder of 1.5 s at 2 frames per second; buffer_seconds is given in
\* tenths of a second.
buffer_seconds_tenths == 15
fps == 2
\* frames the source delivers in one run of the recorder
MaxFrames == 7
\* frames without a usable arm inside one window of the velocity observer
MaxGap == 1
\* shots submitted for analysis in one session
MaxShots == 2
\* frames the source delivers in one run of the live loop
MaxLiveFrames == 18
\* failures of the collaborators (the video writer, the Gemini service,
\* FFmpeg, the metadata file) in one session
MaxFaults == 1

(***************************************************************************)
(* ShotDetector: parameters of __init__ and literals of process_frame.     *)
(***************************************************************************)
wrist_upward_velocity_threshold == -12   \* -0.012, in thousandths
min_wrist_height == 25                   \* 0.25
max_wrist_height == 85                   \* 0.85
\* elbow_extension_threshold = 0.08 = 2/25
elbow_extension_threshold_num == 2
elbow_extension_threshold_den == 25
min_confidence == 50                     \* 0.5
min_wrist_above_shoulder == 5            \* 0.05
min_history_frames == 7                  \* len(self.wrist_positions) >= 7
min_extension_samples == 5               \* len(self.arm_extension_history) >= 5
min_velocity_samples == 5                \* len(positions) < 5 -> None
downward_velocity_threshold == 5         \* 0.005, in thousandths
wrist_too_low == 95                      \* normalized_wrist_y > 0.95
wrist_too_high == 10                     \* normalized_wrist_y < 0.1

(***************************************************************************)
(* The frames and landmark dictionaries fed to the detector.               *)
(***************************************************************************)
\* a frame is known by its number in the stream; NoFrame is `frame is None`
Frame(n) == <<n>>
NoFrame == NoTuple

\* frame.shape[:2] of the frames of one capture
FrameShape == [height |-> 240, width |-> 320]

\* one entry of the landmark dictionary; `present` is FALSE for an index the
\* dictionary does not hold (landmarks.get(...) is None)
Joint(x, y, v) == [present |-> TRUE, x |-> x, y |-> y, visibility |-> v]
MissingJoint == [present |-> FALSE, x |-> 0, y |-> 0, visibility |-> 0]

\* wrist below the shoulder, forearm short
PoseRest == [wrist |-> Joint(50, 60, 90), elbow |-> Joint(50, 50, 90),
             shoulder |-> Joint(50, 40, 90)]
\* wrist above the shoulder and inside the arming band, forearm longer
PoseUp == [wrist |-> Joint(50, 30, 90), elbow |-> Joint(55, 42, 90),
           shoulder |-> Joint(50, 40, 90)]
\* wrist above the arming band (y < 0.25) but not above the frame's top tenth
PoseHigh == [wrist |-> Joint(50, 20, 90), elbow |-> Joint(50, 35, 90),
             shoulder |-> Joint(50, 40, 90)]
\* wrist risen into the arming band with the forearm stretched, but not above
\* the shoulder by the margin
PoseReach == [wrist |-> Joint(50, 38, 90), elbow |-> Joint(50, 55, 90),
              shoulder |-> Joint(50, 40, 90)]
\* a pose seen with the shoulder's visibility exactly at min_confidence
Dim(pose) == [pose EXCEPT !.shoulder.visibility = 50]

\* a limb whose three landmarks are missing from the dictionary
Absent == [wrist |-> MissingJoint, elbow |-> MissingJoint, shoulder |-> MissingJoint]

LimbChoices == {PoseRest, PoseUp, PoseHigh, Dim(PoseRest), Dim(PoseUp), Absent}

\* player_landmarks: None (`detected` is FALSE), or the two arms' landmarks
NoLandmarks == [detected |-> FALSE, right |-> Absent, left |-> Absent]

\* every way the two arms decide a frame: the right arm alone, the left arm
\* behind a right arm that is not usable, and both arms usable at once
LandmarkChoices ==
    {NoLandmarks}
    \cup {[detected |-> TRUE, right |-> r, left |-> Absent] : r \in LimbChoices}
    \cup {[detected |-> TRUE, right |-> Dim(PoseUp), left |-> l] :
             l \in LimbChoices \ {Absent}}
    \cup {[detected |-> TRUE, right |-> PoseRest, left |-> PoseUp]}

\* the landmarks of a player whose right arm alone is seen
RightArm(pose) == [detected |-> TRUE, right |-> pose, left |-> Absent]

VARIABLES
    \* ShotDetector
    wrist_positions, elbow_positions, shoulder_positions, arm_extension_history,
    is_shooting, shot_detected, frames_since_release, shooting_arm,
    \* history of the detector's run, kept for the properties
    low_confidence_only,   \* no frame so far had a limb with three confident joints
    callback_invoked,      \* shot_callback has been called at least once
    signalled,             \* the last process_frame call called shot_callback
    episode_callbacks,     \* calls of shot_callback since the last arming or reset
    end_condition_hits,    \* frames since arming that met a completion condition
    \* what a caller that watches the detector has seen
    last_landmarks,        \* player_landmarks of the last process_frame call
    never_above,           \* no frame so far had the tracked wrist above the
                           \* shoulder by more than the margin
    frames_in_cooldown,    \* calls since the one that called shot_callback,
                           \* while shot_detected was set
    missing_run,           \* frames without a usable arm in a row, up to now
    sample_gaps,           \* per entry of wrist_positions: the frames without
                           \* a usable arm between the entry before and it
    \* VideoRecorder
    frame_buffer, is_recording, current_video_frames,
    \* the recorder's caller
    frames_read,           \* frames delivered by the source so far
    returned,              \* the list the last stop_recording returned
    \* history of the recorder's run, kept for the properties
    last_call,             \* the last recorder call: its name, its frame, and
                           \* whether a recording was open when it was made
    ring_at_begin,         \* frame_buffer when start_recording was last called
    appended_since_begin,  \* frames add_recording_frame took since then
    \* ShotAnalyzer and the storage it writes to
    shots_submitted,       \* analyze_shot calls made so far by the caller
    analysis_callback,     \* ShotAnalyzer.analysis_callback
    tasks,                 \* the locals of each _analyze_shot_sync thread, with
                           \* the history of its stages and callback calls
    video_files,           \* the video files on disk
    metadata_file,         \* data/sessions/session_<id>.json
    faults,                \* collaborator failures so far
    \* SessionManager
    is_active, current_session_id,
    session_metadata,      \* the manager's in-memory copy of the metadata
    summary_metadata,      \* `metadata` of the update_session_summary call
    \* MainWindow and the two threads that run its code
    current_shot_number,
    timers,                \* QTimer.singleShot(3000, process_shot) calls pending
    recording_lock,        \* the thread inside `with self.recording_lock`
    video_pc,              \* where VideoThread.run stands in its iteration
    main_pc,               \* where the GUI thread stands in the slot it runs
    process_shot_frames,   \* `frames` of the process_shot call in progress
    \* history of the live loop, kept for the properties
    armed_now,             \* the detector armed on the frame of this iteration
    opened_now             \* start_recording was called in this iteration

obsVars == <<last_landmarks, never_above, frames_in_cooldown, missing_run,
             sample_gaps>>

detVars == <<wrist_positions, elbow_positions, shoulder_positions,
             arm_extension_history, is_shooting, shot_detected,
             frames_since_release, shooting_arm, low_confidence_only,
             callback_invoked, signalled, episode_callbacks,
             end_condition_hits, obsVars>>

recVars == <<frame_buffer, is_recording, current_video_frames, frames_read,
             returned, last_call, ring_at_begin, appended_since_begin>>

anaVars == <<shots_submitted, analysis_callback, tasks, video_files, metadata_file,
             faults>>

sesVars == <<is_active, current_session_id, session_metadata, summary_metadata>>

liveVars == <<timers, recording_lock, video_pc, process_shot_frames, armed_now,
              opened_now>>

appVars == <<current_shot_number, main_pc, liveVars>>

vars == <<detVars, recVars, anaVars, sesVars, appVars>>

(***************************************************************************)
(* Helpers of the detector.                                                *)
(***************************************************************************)
\* deque(maxlen=n).append
DequeAppend(d, x, n) ==
    IF n = 0 THEN << >>
    ELSE IF Len(d) >= n THEN Append(Tail(d), x) ELSE Append(d, x)

\* int(coordinate * size) for a coordinate given in hundredths
ToPixel(c, size) == (c * size) \div 100

PixelPos(joint, height, width) == <<ToPixel(joint.x, width), ToPixel(joint.y, height)>>

\* variant of IsVisible: a landmark exactly at the threshold counts as visible
IsVisibleAtThreshold(joint) == joint.present /\ joint.visibility >= min_confidence
\* `right_wrist and right_wrist.get('visibility', 0) > self.min_confidence`
IsVisible(joint) == joint.present /\ joint.visibility > min_confidence

\* the condition of each of the two `if`s of _get_shooting_arm_landmarks
LimbUsable(limb) ==
    /\ IsVisible(limb.wrist)
    /\ IsVisible(limb.elbow)
    /\ IsVisible(limb.shoulder)

LimbResult(limb, side, height, width) ==
    [wrist_pos |-> PixelPos(limb.wrist, height, width),
     elbow_pos |-> PixelPos(limb.elbow, height, width),
     shoulder_pos |-> PixelPos(limb.shoulder, height, width),
     arm_side |-> side]

\* _get_shooting_arm_landmarks: the right arm first, then the left, else None
GetShootingArmLandmarks(landmarks, height, width) ==
    IF LimbUsable(landmarks.right) THEN LimbResult(landmarks.right, "right", height, width)
    ELSE IF LimbUsable(landmarks.left) THEN LimbResult(landmarks.left, "left", height, width)
    ELSE [wrist_pos |-> NoTuple, elbow_pos |-> NoTuple, shoulder_pos |-> NoTuple,
          arm_side |-> None]

\* _calculate_velocity: None, or <<dx, dy, dt>> for (dx / dt, dy / dt)
CalculateVelocity(positions) ==
    IF Len(positions) < min_velocity_samples THEN NoTuple
    ELSE LET dx == positions[Len(positions)][1] - positions[1][1]
             dy == positions[Len(positions)][2] - positions[1][2]
             dt == Len(positions) - 1
         IN IF dt = 0 THEN NoTuple ELSE <<dx, dy, dt>>

RECURSIVE ISqrtSearch(_, _, _)
ISqrtSearch(n, lo, hi) ==
    IF lo >= hi THEN lo
    ELSE LET mid == (lo + hi + 1) \div 2
         IN IF mid * mid <= n THEN ISqrtSearch(n, mid, hi)
            ELSE ISqrtSearch(n, lo, mid - 1)

\* the integer part of the square root of n
ISqrt(n) == ISqrtSearch(n, 0, 46340)

\* (wrist - elbow) squared length; np.sqrt of it is the arm extension
ArmExtensionSquared(wrist_pos, elbow_pos) ==
    (wrist_pos[1] - elbow_pos[1]) * (wrist_pos[1] - elbow_pos[1])
    + (wrist_pos[2] - elbow_pos[2]) * (wrist_pos[2] - elbow_pos[2])

\* sqrt(recent) - sqrt(earlier) > num/den, decided in integers:
\*   den*sqrt(recent) > den*sqrt(earlier) + num
\*   den^2*(recent - earlier) - num^2 > 2*num*den*sqrt(earlier)
ExtensionIncreased(recent, earlier) ==
    LET num == elbow_extension_threshold_num
        den == elbow_extension_threshold_den
        lhs == den * den * (recent - earlier) - num * num
    IN lhs > ISqrt(4 * num * num * den * den * earlier)

\* variant of WristAboveShoulder: the check is left out
WristAboveShoulderIgnored(wrist_pos, shoulder_pos, height) == TRUE
\* (normalized_shoulder_y - normalized_wrist_y) > self.min_wrist_above_shoulder
WristAboveShoulder(wrist_pos, shoulder_pos, height) ==
    100 * (shoulder_pos[2] - wrist_pos[2]) > min_wrist_above_shoulder * height

\* vertical_velocity < self.wrist_upward_velocity_threshold
MovingUpward(velocity) == 1000 * velocity[2] < wrist_upward_velocity_threshold * velocity[3]

\* self.min_wrist_height < normalized_wrist_y < self.max_wrist_height
InArmingBand(wrist_pos, height) ==
    /\ min_wrist_height * height < 100 * wrist_pos[2]
    /\ 100 * wrist_pos[2] < max_wrist_height * height

\* variant of CompletionCondition: the wrist is held against the band that
\* arming asks for
CompletionOnArmingBand(velocity, wrist_pos, shoulder_pos, height) ==
    \/ 1000 * velocity[2] > downward_velocity_threshold * velocity[3]
    \/ ~InArmingBand(wrist_pos, height)
    \/ ~WristAboveShoulder(wrist_pos, shoulder_pos, height)
\* the condition of the `elif` of process_frame, without `self.is_shooting`
CompletionCondition(velocity, wrist_pos, shoulder_pos, height) ==
    \/ 1000 * velocity[2] > downward_velocity_threshold * velocity[3]
    \/ 100 * wrist_pos[2] > wrist_too_low * height
    \/ 100 * wrist_pos[2] < wrist_too_high * height
    \/ ~WristAboveShoulder(wrist_pos, shoulder_pos, height)

\* variant of ShouldTrigger: the signalled flag is not consulted
TriggerUnguarded(detected) == TRUE
\* `if not self.shot_detected:` guarding _trigger_shot
ShouldTrigger(detected) == ~detected

\* what the claims call a resolvable frame: some limb has wrist, elbow and
\* shoulder all with confidence above the threshold
LimbConfident(limb) ==
    \A joint \in {limb.wrist, limb.elbow, limb.shoulder} :
        joint.present /\ joint.visibility > min_confidence

FrameResolvable(landmarks) ==
    /\ landmarks.detected
    /\ LimbConfident(landmarks.right) \/ LimbConfident(landmarks.left)

(***************************************************************************)
(* ShotDetector.                                                           *)
(***************************************************************************)
DetectorInit ==
    /\ wrist_positions = << >>
    /\ elbow_positions = << >>
    /\ shoulder_positions = << >>
    /\ arm_extension_history = << >>
    /\ is_shooting = FALSE
    /\ shot_detected = FALSE
    /\ frames_since_release = 0
    /\ shooting_arm = None
    /\ low_confidence_only = TRUE
    /\ callback_invoked = FALSE
    /\ signalled = FALSE
    /\ episode_callbacks = 0
    /\ end_condition_hits = 0
    /\ last_landmarks = NoLandmarks
    /\ never_above = TRUE
    /\ frames_in_cooldown = 0
    /\ missing_run = 0
    /\ sample_gaps = << >>

\* reset_state
ResetState ==
    /\ is_shooting' = FALSE
    /\ shot_detected' = FALSE
    /\ frames_since_release' = 0
    /\ wrist_positions' = << >>
    /\ elbow_positions' = << >>
    /\ shoulder_positions' = << >>
    /\ arm_extension_history' = << >>
    /\ shooting_arm' = None
    /\ episode_callbacks' = 0
    /\ end_condition_hits' = 0

\* variant of GraceExceeded: the reset waits for two more frames
GraceExtended(count) == count > max_frames_after_release + 2
\* process_frame, lines 60 and 76: the counter has passed the maximum
GraceExceeded(count) == count > max_frames_after_release

\* variant of MissingLandmarks: the state is reset at once
MissingLandmarksResets ==
    /\ ResetState
    /\ signalled' = FALSE
    /\ UNCHANGED callback_invoked
\* process_frame, lines 58-64 and 74-80: no landmarks, or no usable arm
MissingLandmarks ==
    /\ IF GraceExceeded(frames_since_release)
       THEN ResetState
       ELSE /\ frames_since_release' = frames_since_release + 1
            /\ UNCHANGED <<wrist_positions, elbow_positions, shoulder_positions,
                           arm_extension_history, is_shooting, shot_detected,
                           shooting_arm, episode_callbacks, end_condition_hits>>
    /\ signalled' = FALSE
    /\ UNCHANGED callback_invoked

\* variant of TriggerShotCalled: the callback is also called on the frame
\* that sets is_shooting
TriggerShotOnArming(arms, triggers) == arms \/ triggers
\* process_frame calls _trigger_shot, and with it shot_callback, in the
\* completion branch only, line 138
TriggerShotCalled(arms, triggers) == triggers

\* process_frame, lines 82-147: the frame has a usable arm
\* variant of HistoryReady: the velocity is looked at whatever the depth
HistoryAlwaysReady(positions) == TRUE
\* process_frame, line 99: fewer than 7 wrist samples and the frame only
\* extends the histories
HistoryReady(positions) == Len(positions) >= min_history_frames

\* variant of NotShooting: the arming branch is entered in any phase
ShootingIgnored(shooting) == TRUE
\* process_frame, line 109: the arming branch is for a detector that is not
\* shooting
NotShooting(shooting) == ~shooting

TrackArm(arm, height) ==
    LET wp == DequeAppend(wrist_positions, arm.wrist_pos, history_maxlen)
        ep == DequeAppend(elbow_positions, arm.elbow_pos, history_maxlen)
        sp == DequeAppend(shoulder_positions, arm.shoulder_pos, history_maxlen)
        ext == DequeAppend(arm_extension_history,
                           ArmExtensionSquared(arm.wrist_pos, arm.elbow_pos),
                           history_maxlen)
        evaluated == HistoryReady(wp)
        velocity == CalculateVelocity(wp)
        early_return == evaluated /\ velocity = NoTuple
        above == WristAboveShoulder(arm.wrist_pos, arm.shoulder_pos, height)
        release == /\ evaluated
                   /\ velocity # NoTuple
                   /\ NotShooting(is_shooting)
                   /\ MovingUpward(velocity)
                   /\ InArmingBand(arm.wrist_pos, height)
                   /\ above
        arms == /\ release
                /\ Len(ext) >= min_extension_samples
                /\ ExtensionIncreased(ext[Len(ext)], ext[1])
        completes == /\ evaluated
                     /\ velocity # NoTuple
                     /\ ~release
                     /\ is_shooting
                     /\ CompletionCondition(velocity, arm.wrist_pos,
                                            arm.shoulder_pos, height)
        triggers == completes /\ ShouldTrigger(shot_detected)
        detected1 == IF arms THEN FALSE ELSE IF completes THEN TRUE ELSE shot_detected
        since1 == IF arms THEN 0 ELSE frames_since_release
        callbacks1 == IF arms THEN 0
                      ELSE IF triggers THEN episode_callbacks + 1
                      ELSE episode_callbacks
        hits1 == IF arms THEN 0
                 ELSE IF completes THEN end_condition_hits + 1
                 ELSE end_condition_hits
    IN /\ callback_invoked' = (callback_invoked \/ TriggerShotCalled(arms, triggers))
       /\ signalled' = TriggerShotCalled(arms, triggers)
       /\ IF ~early_return /\ detected1 /\ since1 + 1 > max_frames_after_release
          THEN ResetState
          ELSE /\ wrist_positions' = wp
               /\ elbow_positions' = ep
               /\ shoulder_positions' = sp
               /\ arm_extension_history' = ext
               /\ is_shooting' = (arms \/ is_shooting)
               /\ shot_detected' = detected1
               /\ frames_since_release' =
                      IF ~early_return /\ detected1 THEN since1 + 1 ELSE since1
               /\ shooting_arm' = IF arms THEN arm.arm_side ELSE shooting_arm
               /\ episode_callbacks' = callbacks1
               /\ end_condition_hits' = hits1

\* process_frame(frame, player_landmarks)
ProcessFrame(frame, landmarks) ==
    /\ low_confidence_only' = (low_confidence_only /\ ~FrameResolvable(landmarks))
    /\ IF frame = NoFrame
       THEN /\ signalled' = FALSE
            /\ UNCHANGED <<wrist_positions, elbow_positions, shoulder_positions,
                           arm_extension_history, is_shooting, shot_detected,
                           frames_since_release, shooting_arm, callback_invoked,
                           episode_callbacks, end_condition_hits>>
       ELSE IF ~landmarks.detected
       THEN MissingLandmarks
       ELSE LET arm == GetShootingArmLandmarks(landmarks, FrameShape.height,
                                               FrameShape.width)
            IN IF \/ arm.wrist_pos = NoTuple
                  \/ arm.elbow_pos = NoTuple
                  \/ arm.shoulder_pos = NoTuple
               THEN MissingLandmarks
               ELSE TrackArm(arm, FrameShape.height)

\* a call with no frame: the pose detector has nothing to look at either
DetectorNoFrame ==
    /\ ProcessFrame(NoFrame, NoLandmarks)
    /\ UNCHANGED <<obsVars, recVars, anaVars, sesVars, appVars>>

DetectorFrame ==
    /\ \E landmarks \in LandmarkChoices : ProcessFrame(Frame(0), landmarks)
    /\ UNCHANGED <<obsVars, recVars, anaVars, sesVars, appVars>>

DetectorNext == DetectorNoFrame \/ DetectorFrame

\* the limb _get_shooting_arm_landmarks returns for a frame that has one
TrackedLimb(landmarks) ==
    IF LimbConfident(landmarks.right) THEN landmarks.right ELSE landmarks.left

\* the wrist of the limb is above its shoulder by more than the margin, in
\* the pixels of the frame
WristOverShoulder(limb) ==
    100 * (ToPixel(limb.shoulder.y, FrameShape.height)
           - ToPixel(limb.wrist.y, FrameShape.height))
        > min_wrist_above_shoulder * FrameShape.height

\* process_frame calls of a caller that keeps the landmarks it passed and
\* notes whether the tracked wrist has been above the shoulder
ArmingFrame ==
    /\ \E landmarks \in {NoLandmarks, RightArm(Dim(PoseUp)), RightArm(PoseRest),
                          RightArm(PoseReach), RightArm(PoseUp)} :
          /\ ProcessFrame(Frame(0), landmarks)
          /\ last_landmarks' = landmarks
          /\ never_above' =
                (never_above /\ ~(/\ FrameResolvable(landmarks)
                                  /\ WristOverShoulder(TrackedLimb(landmarks))))
    /\ UNCHANGED <<frames_in_cooldown, missing_run, sample_gaps>>
    /\ UNCHANGED <<recVars, anaVars, sesVars, appVars>>

\* process_frame calls of a caller that keeps the landmarks it passed
EpisodeFrame ==
    /\ \E landmarks \in {NoLandmarks, RightArm(Dim(PoseUp)), RightArm(PoseRest),
                          RightArm(PoseUp), RightArm(PoseHigh)} :
          /\ ProcessFrame(Frame(0), landmarks)
          /\ last_landmarks' = landmarks
    /\ UNCHANGED <<never_above, frames_in_cooldown, missing_run, sample_gaps>>
    /\ UNCHANGED <<recVars, anaVars, sesVars, appVars>>

\* the same for a player whose arms are not always both usable
SideFrame ==
    /\ \E landmarks \in
          {RightArm(PoseRest), RightArm(PoseUp),
           [detected |-> TRUE, right |-> Dim(PoseUp), left |-> PoseRest],
           [detected |-> TRUE, right |-> Dim(PoseUp), left |-> PoseUp],
           [detected |-> TRUE, right |-> PoseRest, left |-> PoseUp]} :
          /\ ProcessFrame(Frame(0), landmarks)
          /\ last_landmarks' = landmarks
    /\ UNCHANGED <<never_above, frames_in_cooldown, missing_run, sample_gaps>>
    /\ UNCHANGED <<recVars, anaVars, sesVars, appVars>>

\* process_frame calls of a caller that counts the calls since shot_callback
\* and the frames without a usable arm in a row; the second count stops at
\* max_frames_after_release + 2
CooldownFrame ==
    /\ \E landmarks \in {NoLandmarks, RightArm(PoseRest), RightArm(PoseUp)} :
          /\ ProcessFrame(Frame(0), landmarks)
          /\ missing_run' =
                IF FrameResolvable(landmarks) THEN 0
                ELSE IF missing_run < max_frames_after_release + 2
                THEN missing_run + 1
                ELSE missing_run
    /\ frames_in_cooldown' = IF signalled' THEN 0
                             ELSE IF shot_detected THEN frames_in_cooldown + 1
                             ELSE 0
    /\ UNCHANGED <<last_landmarks, never_above, sample_gaps>>
    /\ UNCHANGED <<recVars, anaVars, sesVars, appVars>>

RECURSIVE SumFrom(_, _)
\* the sum of the entries i.. of a sequence of numbers
SumFrom(seq, i) == IF i > Len(seq) THEN 0 ELSE seq[i] + SumFrom(seq, i + 1)

\* process_frame under observation of the frames that lie between the entries
\* of wrist_positions; the pose is lost on at most MaxGap frames per window
VelocityFrame ==
    /\ \E landmarks \in {NoLandmarks, RightArm(PoseRest), RightArm(PoseUp)} :
          /\ FrameResolvable(landmarks)
                \/ SumFrom(sample_gaps, 1) + missing_run < MaxGap
          /\ ProcessFrame(Frame(0), landmarks)
          /\ missing_run' =
                IF FrameResolvable(landmarks) THEN 0
                ELSE IF missing_run < max_frames_after_release + 2
                THEN missing_run + 1
                ELSE missing_run
          /\ sample_gaps' =
                IF wrist_positions' = << >> THEN << >>
                ELSE IF FrameResolvable(landmarks)
                THEN DequeAppend(sample_gaps, missing_run, history_maxlen)
                ELSE sample_gaps
    /\ UNCHANGED <<last_landmarks, never_above, frames_in_cooldown>>
    /\ UNCHANGED <<recVars, anaVars, sesVars, appVars>>


\* wrist_positions as process_frame has it after appending the sample of a
\* frame with these landmarks
WristWindow(landmarks) ==
    DequeAppend(wrist_positions,
                PixelPos(TrackedLimb(landmarks).wrist, FrameShape.height,
                         FrameShape.width),
                history_maxlen)

\* a frame with these landmarks is one on which process_frame looks at the
\* velocity: it has a usable arm and the window has its 7 samples
FrameEvaluated(landmarks) ==
    /\ FrameResolvable(landmarks)
    /\ Len(WristWindow(landmarks)) >= min_history_frames

\* the wrist velocity over the window is downward beyond the small threshold
MovingDownward(window) ==
    LET dy == window[Len(window)][2] - window[1][2]
    IN 1000 * dy > downward_velocity_threshold * (Len(window) - 1)

\* the detector is as reset_state leaves it
FullyReset ==
    /\ ~is_shooting
    /\ ~shot_detected
    /\ frames_since_release = 0
    /\ wrist_positions = << >>
    /\ elbow_positions = << >>
    /\ shoulder_positions = << >>
    /\ arm_extension_history = << >>
    /\ shooting_arm = None

(***************************************************************************)
(* VideoRecorder.                                                          *)
(***************************************************************************)
\* self.buffer_size = int(buffer_seconds * fps)
buffer_size == (buffer_seconds_tenths * fps) \div 10

\* variant of RingSnapshot: the recording starts without the pre-roll
NoPreRoll(buffer) == << >>
\* list(self.frame_buffer): a new list with the ring's frames, oldest first
RingSnapshot(buffer) == buffer

\* variant of FramesCopy: the list itself is returned, and the clear() that
\* follows empties it
FramesAlias(frames) == << >>
\* self.current_video_frames.copy(), taken before clear()
FramesCopy(frames) == frames

\* variant of RingAppend: a deque made without maxlen
RingAppendUnbounded(buffer, frame) == Append(buffer, frame)
\* self.frame_buffer.append on deque(maxlen=self.buffer_size)
RingAppend(buffer, frame) == DequeAppend(buffer, frame, buffer_size)

RecorderInit ==
    /\ frame_buffer = << >>
    /\ is_recording = FALSE
    /\ current_video_frames = << >>
    /\ frames_read = 0
    /\ returned = << >>
    /\ last_call = [op |-> "__init__", frame |-> NoFrame, was_recording |-> FALSE]
    /\ ring_at_begin = << >>
    /\ appended_since_begin = << >>

Called(op, frame) == [op |-> op, frame |-> frame, was_recording |-> is_recording]

\* add_frame(frame)
AddFrame(frame) ==
    /\ frame_buffer' = IF frame # NoFrame THEN RingAppend(frame_buffer, frame)
                       ELSE frame_buffer
    /\ last_call' = Called("add_frame", frame)
    /\ UNCHANGED <<is_recording, current_video_frames, returned, ring_at_begin,
                   appended_since_begin>>

\* start_recording()
StartRecording ==
    /\ is_recording' = TRUE
    /\ current_video_frames' = RingSnapshot(frame_buffer)
    /\ last_call' = Called("start_recording", NoFrame)
    /\ ring_at_begin' = frame_buffer
    /\ appended_since_begin' = << >>
    /\ UNCHANGED <<frame_buffer, returned>>

\* add_recording_frame(frame)
AddRecordingFrame(frame) ==
    /\ IF is_recording /\ frame # NoFrame
       THEN /\ current_video_frames' = Append(current_video_frames, frame)
            /\ appended_since_begin' = Append(appended_since_begin, frame)
       ELSE UNCHANGED <<current_video_frames, appended_since_begin>>
    /\ last_call' = Called("add_recording_frame", frame)
    /\ UNCHANGED <<frame_buffer, is_recording, returned, ring_at_begin>>

\* variant of StopRecording: current_video_frames is not cleared
StopRecordingKeepsFrames ==
    /\ is_recording' = FALSE
    /\ returned' = FramesCopy(current_video_frames)
    /\ last_call' = Called("stop_recording", NoFrame)
    /\ UNCHANGED <<frame_buffer, current_video_frames, ring_at_begin,
                   appended_since_begin>>
\* stop_recording()
StopRecording ==
    /\ is_recording' = FALSE
    /\ returned' = FramesCopy(current_video_frames)
    /\ current_video_frames' = << >>
    /\ last_call' = Called("stop_recording", NoFrame)
    /\ UNCHANGED <<frame_buffer, ring_at_begin, appended_since_begin>>

\* the caller passes no frame
RecorderAddNoFrame ==
    /\ AddFrame(NoFrame)
    /\ UNCHANGED <<frames_read, detVars, anaVars, sesVars, appVars>>

\* the caller passes the next frame of the source
RecorderAddFrame ==
    /\ frames_read < MaxFrames
    /\ frames_read' = frames_read + 1
    /\ AddFrame(Frame(frames_read + 1))
    /\ UNCHANGED <<detVars, anaVars, sesVars, appVars>>

RecorderStart ==
    /\ StartRecording
    /\ UNCHANGED <<frames_read, detVars, anaVars, sesVars, appVars>>

RecorderAddRecordingNoFrame ==
    /\ AddRecordingFrame(NoFrame)
    /\ UNCHANGED <<frames_read, detVars, anaVars, sesVars, appVars>>

RecorderAddRecordingFrame ==
    /\ frames_read < MaxFrames
    /\ frames_read' = frames_read + 1
    /\ AddRecordingFrame(Frame(frames_read + 1))
    /\ UNCHANGED <<detVars, anaVars, sesVars, appVars>>

RecorderStop ==
    /\ StopRecording
    /\ UNCHANGED <<frames_read, detVars, anaVars, sesVars, appVars>>

RecorderNext ==
    \/ RecorderAddNoFrame
    \/ RecorderAddFrame
    \/ RecorderStart
    \/ RecorderAddRecordingNoFrame
    \/ RecorderAddRecordingFrame
    \/ RecorderStop

(***************************************************************************)
(* ShotAnalyzer, with VideoStorage, CritiqueGenerator, GeminiClient,       *)
(* VideoOverlay and MetadataManager as far as a shot analysis uses them.   *)
(* A thread's step is the completion of one stage; a thread standing at a  *)
(* stage is running it, or is blocked in the stage's external call.        *)
(***************************************************************************)
ShotNumbers == 1..MaxShots

\* the session the shots belong to
SessionId == "session"

\* what the Gemini service does with one request: it answers with a text, or
\* raises an error with a message. The text, or the message, is known by
\* whether it holds the words MADE and MISSED once in upper case.
GeminiOutcomes ==
    {[raised |-> r, has_made |-> m, has_missed |-> x] :
        r \in BOOLEAN, m \in BOOLEAN, x \in BOOLEAN}

\* GeminiClient.analyze_video: the response text, or, for any exception,
\* "Error analyzing video: " followed by the exception's message
AnalyzeVideo(outcome) ==
    [error |-> outcome.raised, has_made |-> outcome.has_made,
     has_missed |-> outcome.has_missed]

\* CritiqueGenerator.determine_shot_result on the text analyze_video returned
DetermineShotResult(response) ==
    IF response.has_made /\ ~response.has_missed THEN "True"
    ELSE IF response.has_missed THEN "False"
    ELSE "False"

\* CritiqueGenerator.generate_shot_critique: analyze_video's text
GenerateShotCritique(outcome) ==
    IF AnalyzeVideo(outcome).error THEN "Error analyzing video" ELSE "critique"

NoPath == [session |-> None, shot |-> 0, result |-> None, with_critique |-> FALSE]

\* VideoStorage.get_shot_video_path
GetShotVideoPath(session_id, shot_number, shot_made, with_critique) ==
    [session |-> session_id, shot |-> shot_number,
     result |-> IF shot_made = "True" THEN "made" ELSE "missed",
     with_critique |-> with_critique]

\* MetadataManager.create_session_metadata (the times and the summary are
\* left out)
CreateSessionMetadata(session_id) ==
    [session_id |-> session_id, total_shots |-> 0, shots_made |-> 0,
     shots_missed |-> 0, shots |-> << >>]

NoShotData == [shot_number |-> 0, shot_made |-> None, video_path |-> NoPath,
               critique |-> None]

MadeCount(shots) == Cardinality({i \in 1..Len(shots) : shots[i].shot_made = "True"})

\* variant of WithShot: the shot is appended and the counters are left alone
WithShotNotCounted(metadata, shot_data) ==
    [metadata EXCEPT !.shots = Append(metadata.shots, shot_data)]
\* add_shot_metadata, lines 92-95: append the shot and recount
WithShot(metadata, shot_data) ==
    LET shots == Append(metadata.shots, shot_data)
    IN [metadata EXCEPT !.shots = shots,
                        !.total_shots = Len(shots),
                        !.shots_made = MadeCount(shots),
                        !.shots_missed = Len(shots) - MadeCount(shots)]

\* the stages of _analyze_shot_sync in the order of its statements
StageOrder == <<"save_video", "determine_shot_result", "generate_shot_critique",
                "add_text_overlay", "add_shot_metadata", "analysis_callback">>

\* variant of StageAfter: the overlay is rendered before the critique exists
StageAfterOverlayFirst(stage) ==
    CASE stage = "save_video" -> "determine_shot_result"
      [] stage = "determine_shot_result" -> "add_text_overlay"
      [] stage = "add_text_overlay" -> "generate_shot_critique"
      [] stage = "generate_shot_critique" -> "add_shot_metadata"
      [] stage = "add_shot_metadata" -> "analysis_callback"
      [] stage = "analysis_callback" -> "done"
\* the statement a thread goes on with when a stage has completed
StageAfter(stage) ==
    CASE stage = "save_video" -> "determine_shot_result"
      [] stage = "determine_shot_result" -> "generate_shot_critique"
      [] stage = "generate_shot_critique" -> "add_text_overlay"
      [] stage = "add_text_overlay" -> "add_shot_metadata"
      [] stage = "add_shot_metadata" -> "analysis_callback"
      [] stage = "analysis_callback" -> "done"

\* a thread that has not been started
NoTask ==
    [pc |-> "unsubmitted", session_id |-> None, shot_number |-> 0,
     frames |-> << >>, shot_made |-> None, initial_video_path |-> NoPath,
     final_video_path |-> NoPath, critique |-> None,
     metadata |-> CreateSessionMetadata(None),
     stages |-> << >>,           \* the stages the thread has entered
     delivered |-> << >>,        \* the callback calls the thread has made
     callback |-> None,          \* the callback argument of the analyze_shot call
     invoked |-> << >>,          \* the callables the thread has called
     classifier_raised |-> FALSE,\* the service raised in determine_shot_result
     critique_raised |-> FALSE,  \* the service raised in generate_shot_critique
     write_failed |-> FALSE,     \* open(file_path, 'w') raised in add_shot_metadata
     recorded |-> NoShotData]    \* the shot_data the thread has written

\* SessionManager.session_metadata: None, or a metadata dictionary
NoMetadata == [present |-> FALSE, content |-> CreateSessionMetadata(None)]
Metadata(content) == [present |-> TRUE, content |-> content]

\* SessionManager.__init__
SessionInit ==
    /\ is_active = FALSE
    /\ current_session_id = None
    /\ session_metadata = NoMetadata
    /\ summary_metadata = NoMetadata

AnalyzerInit ==
    /\ shots_submitted = 0
    /\ analysis_callback = None
    /\ tasks = [n \in ShotNumbers |-> NoTask]
    /\ video_files = {}
    /\ metadata_file = [exists |-> FALSE, complete |-> FALSE,
                        content |-> CreateSessionMetadata(None)]
    /\ faults = 0

\* a collaborator may work, and may fail as long as the session's failures
\* stay within MaxFaults
Collaborator(works) ==
    /\ ~works => faults < MaxFaults
    /\ faults' = IF works THEN faults ELSE faults + 1

\* variant of AnalyzeShot: the caller runs the analysis itself, so that a call
\* is made only when the earlier ones have returned
AnalyzeShotInline(session_id, shot_number, frames, callback) ==
    /\ \A n \in 1..MaxShots : tasks[n].pc \in {"unsubmitted", "done"}
    /\ shots_submitted < MaxShots
    /\ shots_submitted' = shots_submitted + 1
    /\ analysis_callback' = callback
    /\ tasks' = [tasks EXCEPT ![shots_submitted + 1] =
                    [NoTask EXCEPT !.pc = "save_video",
                                   !.session_id = session_id,
                                   !.shot_number = shot_number,
                                   !.frames = frames,
                                   !.callback = callback]]
    /\ UNCHANGED <<video_files, metadata_file>>
\* analyze_shot(session_id, shot_number, frames, width, height, None, callback):
\* the thread it starts is the next entry of tasks
AnalyzeShot(session_id, shot_number, frames, callback) ==
    /\ shots_submitted < MaxShots
    /\ shots_submitted' = shots_submitted + 1
    /\ analysis_callback' = callback
    /\ tasks' = [tasks EXCEPT ![shots_submitted + 1] =
                    [NoTask EXCEPT !.pc = "save_video",
                                   !.session_id = session_id,
                                   !.shot_number = shot_number,
                                   !.frames = frames,
                                   !.callback = callback]]
    /\ UNCHANGED <<video_files, metadata_file>>

Entered(task, stage) == Append(task.stages, stage)

\* an exception leaves the try block: the handler runs next
Raise(task) == [task EXCEPT !.pc = "except"]

\* lines 68-77: save the clip at the path of a missed shot; return if that fails
SaveVideo(n, writer_opened) ==
    LET task == tasks[n]
        path == GetShotVideoPath(task.session_id, task.shot_number, "False", FALSE)
        saved == task.frames # << >> /\ writer_opened
        entered == [task EXCEPT !.stages = Entered(task, "save_video"),
                                !.initial_video_path = path]
    IN /\ task.pc = "save_video"
       /\ IF saved
          THEN /\ video_files' = video_files \cup {path}
               /\ tasks' = [tasks EXCEPT ![n] =
                              [entered EXCEPT !.pc = StageAfter("save_video")]]
          ELSE /\ video_files' = video_files
               /\ tasks' = [tasks EXCEPT ![n] = [entered EXCEPT !.pc = "done"]]
       /\ UNCHANGED <<shots_submitted, analysis_callback, metadata_file>>

\* variant of DetermineResult: the clip stays where save_video wrote it
DetermineResultNoMove(n, outcome) ==
    LET task == tasks[n]
    IN /\ task.pc = "determine_shot_result"
       /\ video_files' = video_files
       /\ tasks' = [tasks EXCEPT ![n] =
             [task EXCEPT !.stages = Entered(task, "determine_shot_result"),
                          !.shot_made = DetermineShotResult(AnalyzeVideo(outcome)),
                          !.classifier_raised = outcome.raised,
                          !.pc = StageAfter("determine_shot_result")]]
       /\ UNCHANGED <<shots_submitted, analysis_callback, metadata_file>>
\* lines 80-93: ask for the result, and move the clip if the shot was made
DetermineResult(n, outcome) ==
    LET task == tasks[n]
        shot_made == DetermineShotResult(AnalyzeVideo(outcome))
        correct == GetShotVideoPath(task.session_id, task.shot_number, shot_made, FALSE)
        entered == [task EXCEPT !.stages = Entered(task, "determine_shot_result"),
                                !.shot_made = shot_made,
                                !.classifier_raised = outcome.raised]
    IN /\ task.pc = "determine_shot_result"
       /\ IF shot_made # "False"
          THEN IF task.initial_video_path \in video_files
               THEN /\ video_files' = (video_files \ {task.initial_video_path})
                                        \cup {correct}
                    /\ tasks' = [tasks EXCEPT ![n] =
                          [entered EXCEPT !.initial_video_path = correct,
                                          !.pc = StageAfter("determine_shot_result")]]
               ELSE \* shutil.move raises FileNotFoundError
                    /\ video_files' = video_files
                    /\ tasks' = [tasks EXCEPT ![n] = Raise(entered)]
          ELSE /\ video_files' = video_files
               /\ tasks' = [tasks EXCEPT ![n] =
                     [entered EXCEPT !.pc = StageAfter("determine_shot_result")]]
       /\ UNCHANGED <<shots_submitted, analysis_callback, metadata_file>>

\* variant of GenerateCritique: an exception of the service leaves
\* generate_shot_critique
GenerateCritiqueRaises(n, outcome) ==
    LET task == tasks[n]
        entered == [task EXCEPT !.stages = Entered(task, "generate_shot_critique"),
                                !.critique_raised = outcome.raised]
    IN /\ task.pc = "generate_shot_critique"
       /\ tasks' = [tasks EXCEPT ![n] =
             IF outcome.raised THEN Raise(entered)
             ELSE [entered EXCEPT !.critique = GenerateShotCritique(outcome),
                                  !.pc = StageAfter("generate_shot_critique")]]
       /\ UNCHANGED <<shots_submitted, analysis_callback, video_files, metadata_file>>
\* lines 96-99
GenerateCritique(n, outcome) ==
    LET task == tasks[n]
    IN /\ task.pc = "generate_shot_critique"
       /\ tasks' = [tasks EXCEPT ![n] =
             [task EXCEPT !.stages = Entered(task, "generate_shot_critique"),
                          !.critique = GenerateShotCritique(outcome),
                          !.critique_raised = outcome.raised,
                          !.pc = StageAfter("generate_shot_critique")]]
       /\ UNCHANGED <<shots_submitted, analysis_callback, video_files, metadata_file>>

\* variant of AddTextOverlay: the result of add_text_overlay is not looked at
AddTextOverlayUnchecked(n, ffmpeg_ok) ==
    LET task == tasks[n]
        final == GetShotVideoPath(task.session_id, task.shot_number,
                                  task.shot_made, TRUE)
        rendered == task.initial_video_path \in video_files /\ ffmpeg_ok
    IN /\ task.pc = "add_text_overlay"
       /\ video_files' = IF rendered THEN video_files \cup {final} ELSE video_files
       /\ tasks' = [tasks EXCEPT ![n] =
             [task EXCEPT !.stages = Entered(task, "add_text_overlay"),
                          !.final_video_path = final,
                          !.pc = StageAfter("add_text_overlay")]]
       /\ UNCHANGED <<shots_submitted, analysis_callback, metadata_file>>
\* lines 102-113: VideoOverlay.add_text_overlay; the clip without overlay is
\* kept as the final video if it fails
AddTextOverlay(n, ffmpeg_ok) ==
    LET task == tasks[n]
        final == GetShotVideoPath(task.session_id, task.shot_number,
                                  task.shot_made, TRUE)
        rendered == task.initial_video_path \in video_files /\ ffmpeg_ok
    IN /\ task.pc = "add_text_overlay"
       /\ video_files' = IF rendered THEN video_files \cup {final} ELSE video_files
       /\ tasks' = [tasks EXCEPT ![n] =
             [task EXCEPT !.stages = Entered(task, "add_text_overlay"),
                          !.final_video_path =
                              IF rendered THEN final ELSE task.initial_video_path,
                          !.pc = StageAfter("add_text_overlay")]]
       /\ UNCHANGED <<shots_submitted, analysis_callback, metadata_file>>

\* add_shot_metadata, lines 80-82: load_session_metadata. A file that another
\* thread has opened for writing and not written yet is empty: json.load
\* raises.
LoadSessionMetadata(n) ==
    LET task == tasks[n]
        entered == [task EXCEPT !.stages = Entered(task, "add_shot_metadata")]
    IN /\ task.pc = "add_shot_metadata"
       /\ tasks' = [tasks EXCEPT ![n] =
             IF ~metadata_file.exists
             THEN [entered EXCEPT !.metadata = CreateSessionMetadata(task.session_id),
                                  !.pc = "open_metadata_file"]
             ELSE IF ~metadata_file.complete
             THEN Raise(entered)
             ELSE [entered EXCEPT !.metadata = metadata_file.content,
                                  !.pc = "open_metadata_file"]]
       /\ UNCHANGED <<shots_submitted, analysis_callback, video_files, metadata_file>>

\* add_shot_metadata, lines 84-95, and save_session_metadata, line 50:
\* open(file_path, 'w') empties the file, or raises OSError
OpenMetadataFile(n, opened) ==
    LET task == tasks[n]
        \* shot_data, lines 84-90 (the timestamp is left out)
        shot_data == [shot_number |-> task.shot_number,
                      shot_made |-> task.shot_made,
                      video_path |-> task.final_video_path,
                      critique |-> task.critique]
    IN /\ task.pc = "open_metadata_file"
       /\ IF opened
          THEN /\ metadata_file' = [metadata_file EXCEPT !.exists = TRUE,
                                                        !.complete = FALSE]
               /\ tasks' = [tasks EXCEPT ![n] =
                     [task EXCEPT !.metadata = WithShot(task.metadata, shot_data),
                                  !.pc = "dump_metadata"]]
          ELSE /\ metadata_file' = metadata_file
               /\ tasks' = [tasks EXCEPT ![n] =
                     Raise([task EXCEPT !.write_failed = TRUE])]
       /\ UNCHANGED <<shots_submitted, analysis_callback, video_files>>

\* save_session_metadata, line 51: json.dump and the close of the file
DumpMetadata(n) ==
    LET task == tasks[n]
    IN /\ task.pc = "dump_metadata"
       /\ metadata_file' = [exists |-> TRUE, complete |-> TRUE,
                            content |-> task.metadata]
       /\ tasks' = [tasks EXCEPT ![n] =
             [task EXCEPT !.recorded = task.metadata.shots[Len(task.metadata.shots)],
                          !.pc = StageAfter("add_shot_metadata")]]
       /\ UNCHANGED <<shots_submitted, analysis_callback, video_files>>

CallbackCall(shot_number, shot_made, critique, video_path) ==
    [shot_number |-> shot_number, shot_made |-> shot_made,
     critique |-> critique, video_path |-> video_path]

\* MainWindow.on_shot_analyzed, the callback process_shot passes: it reloads
\* the session's metadata first, and json.load raises on a file that another
\* thread has opened for writing and not written yet
OnShotAnalyzedRaises == metadata_file.exists /\ ~metadata_file.complete

\* on_shot_analyzed, lines 779-781: the manager's copy becomes what
\* load_session_metadata returns (None for a file that does not exist)
OnShotAnalyzed ==
    IF current_session_id = None \/ OnShotAnalyzedRaises
    THEN session_metadata
    ELSE IF metadata_file.exists THEN Metadata(metadata_file.content)
    ELSE NoMetadata

\* lines 125-126; an exception of the callback is one of the try block
AnalysisCallback(n) ==
    LET task == tasks[n]
        entered == [task EXCEPT !.stages = Entered(task, "analysis_callback")]
        called == [entered EXCEPT !.delivered = Append(task.delivered,
                      CallbackCall(task.shot_number, task.shot_made,
                                   task.critique, task.final_video_path)),
                                  !.invoked = Append(task.invoked,
                                                     analysis_callback)]
    IN /\ task.pc = "analysis_callback"
       /\ tasks' = [tasks EXCEPT ![n] =
             IF analysis_callback = None
             THEN [entered EXCEPT !.pc = StageAfter("analysis_callback")]
             ELSE IF OnShotAnalyzedRaises
             THEN Raise(called)
             ELSE [called EXCEPT !.pc = StageAfter("analysis_callback")]]
       /\ session_metadata' = IF analysis_callback = None THEN session_metadata
                              ELSE OnShotAnalyzed
       /\ UNCHANGED <<shots_submitted, analysis_callback, video_files, metadata_file>>

\* variant of ExceptHandler: the exception is printed and the callback is
\* not called
ExceptHandlerSilent(n) ==
    LET task == tasks[n]
    IN /\ task.pc = "except"
       /\ tasks' = [tasks EXCEPT ![n] =
             [task EXCEPT !.stages = Entered(task, "except"), !.pc = "done"]]
       /\ UNCHANGED <<shots_submitted, analysis_callback, video_files,
                      metadata_file, session_metadata>>
\* lines 128-131: the handler of any exception; the thread ends with it,
\* whether or not the callback raises this time
ExceptHandler(n) ==
    LET task == tasks[n]
        entered == [task EXCEPT !.stages = Entered(task, "except"),
                                !.pc = "done"]
    IN /\ task.pc = "except"
       /\ tasks' = [tasks EXCEPT ![n] =
             IF analysis_callback # None
             THEN [entered EXCEPT !.delivered = Append(task.delivered,
                      CallbackCall(task.shot_number, task.shot_made,
                                   "Error", NoPath)),
                                  !.invoked = Append(task.invoked,
                                                     analysis_callback)]
             ELSE entered]
       /\ session_metadata' = IF analysis_callback = None THEN session_metadata
                              ELSE OnShotAnalyzed
       /\ UNCHANGED <<shots_submitted, analysis_callback, video_files, metadata_file>>

\* SessionManager.start_session with MainWindow.start_session, lines 697-700,
\* for the first session of a run
StartSession ==
    /\ main_pc = "idle"
    /\ current_session_id = None
    /\ current_session_id' = SessionId
    /\ session_metadata' = Metadata(CreateSessionMetadata(SessionId))
    /\ is_active' = TRUE
    /\ current_shot_number' = 0
    /\ UNCHANGED summary_metadata

\* MainWindow.end_session, lines 707-713, with SessionManager.end_session up
\* to the open(file_path, 'w') of save_session_metadata; an OSError ends the
\* slot with the session still active
EndSessionOpen(opened) ==
    /\ main_pc = "idle"
    /\ is_active
    /\ IF ~session_metadata.present
       THEN /\ is_active' = FALSE
            /\ UNCHANGED <<metadata_file, main_pc>>
       ELSE IF opened
       THEN /\ metadata_file' = [metadata_file EXCEPT !.exists = TRUE,
                                                     !.complete = FALSE]
            /\ main_pc' = "end_session_dump"
            /\ UNCHANGED is_active
       ELSE UNCHANGED <<metadata_file, main_pc, is_active>>
    /\ UNCHANGED <<current_session_id, session_metadata, summary_metadata>>

\* SessionManager.end_session, lines 45-51 from json.dump on, and
\* MainWindow.end_session, line 715: a summary is made if there are shots
EndSessionDump ==
    /\ main_pc = "end_session_dump"
    /\ metadata_file' = [exists |-> TRUE, complete |-> TRUE,
                         content |-> session_metadata.content]
    /\ is_active' = FALSE
    /\ main_pc' = IF session_metadata.content.shots # << >>
                  THEN "update_session_summary" ELSE "idle"
    /\ UNCHANGED <<current_session_id, session_metadata, summary_metadata>>

\* update_session_summary, lines 106-108: json.load raises on a file that a
\* thread has emptied, and the slot ends
UpdateSummaryLoad ==
    /\ main_pc = "update_session_summary"
    /\ IF metadata_file.exists /\ metadata_file.complete
       THEN /\ summary_metadata' = Metadata(metadata_file.content)
            /\ main_pc' = "update_summary_open"
       ELSE /\ summary_metadata' = NoMetadata
            /\ main_pc' = "idle"
    /\ UNCHANGED <<metadata_file, is_active, current_session_id, session_metadata>>

\* update_session_summary, lines 110-112, to the open of the file
UpdateSummaryOpen(opened) ==
    /\ main_pc = "update_summary_open"
    /\ IF opened
       THEN /\ metadata_file' = [metadata_file EXCEPT !.complete = FALSE]
            /\ main_pc' = "update_summary_dump"
            /\ UNCHANGED summary_metadata
       ELSE /\ summary_metadata' = NoMetadata
            /\ main_pc' = "idle"
            /\ UNCHANGED metadata_file
    /\ UNCHANGED <<is_active, current_session_id, session_metadata>>

\* save_session_metadata, line 51, for update_session_summary
UpdateSummaryDump ==
    /\ main_pc = "update_summary_dump"
    /\ metadata_file' = [exists |-> TRUE, complete |-> TRUE,
                         content |-> summary_metadata.content]
    /\ summary_metadata' = NoMetadata
    /\ main_pc' = "idle"
    /\ UNCHANGED <<is_active, current_session_id, session_metadata>>

\* the analyze_shot call of process_shot, lines 758-767, for a capture of
\* any length and the next shot number
AnalyzerSubmit ==
    /\ main_pc = "idle"
    /\ current_session_id # None
    /\ \E frames \in {<< >>, <<Frame(1), Frame(2)>>} :
          AnalyzeShot(current_session_id, shots_submitted + 1, frames,
                      "on_shot_analyzed")
    /\ UNCHANGED <<faults, detVars, recVars, sesVars, appVars>>

\* analyze_shot called for a capture with frames and with either kind of
\* callback argument
AnalyzerSubmitWith ==
    /\ main_pc = "idle"
    /\ current_session_id # None
    /\ \E callback \in {"on_shot_analyzed", None} :
          AnalyzeShot(current_session_id, shots_submitted + 1,
                      <<Frame(1), Frame(2)>>, callback)
    /\ UNCHANGED <<faults, detVars, recVars, sesVars, appVars>>

AnalyzerSaveVideo ==
    /\ \E n \in ShotNumbers, writer_opened \in BOOLEAN :
          SaveVideo(n, writer_opened) /\ Collaborator(writer_opened)
    /\ UNCHANGED <<detVars, recVars, sesVars, appVars>>

AnalyzerDetermineResult ==
    /\ \E n \in ShotNumbers, outcome \in GeminiOutcomes :
          DetermineResult(n, outcome) /\ Collaborator(~outcome.raised)
    /\ UNCHANGED <<detVars, recVars, sesVars, appVars>>

AnalyzerGenerateCritique ==
    /\ \E n \in ShotNumbers, outcome \in GeminiOutcomes :
          GenerateCritique(n, outcome) /\ Collaborator(~outcome.raised)
    /\ UNCHANGED <<detVars, recVars, sesVars, appVars>>

AnalyzerAddTextOverlay ==
    /\ \E n \in ShotNumbers, ffmpeg_ok \in BOOLEAN :
          AddTextOverlay(n, ffmpeg_ok) /\ Collaborator(ffmpeg_ok)
    /\ UNCHANGED <<detVars, recVars, sesVars, appVars>>

AnalyzerLoadMetadata ==
    /\ \E n \in ShotNumbers : LoadSessionMetadata(n)
    /\ UNCHANGED <<faults, detVars, recVars, sesVars, appVars>>

AnalyzerOpenMetadataFile ==
    /\ \E n \in ShotNumbers, opened \in BOOLEAN :
          OpenMetadataFile(n, opened) /\ Collaborator(opened)
    /\ UNCHANGED <<detVars, recVars, sesVars, appVars>>

AnalyzerDumpMetadata ==
    /\ \E n \in ShotNumbers : DumpMetadata(n)
    /\ UNCHANGED <<faults, detVars, recVars, sesVars, appVars>>

AnalyzerCallback ==
    /\ \E n \in ShotNumbers : AnalysisCallback(n)
    /\ UNCHANGED <<faults, detVars, recVars, is_active, current_session_id,
                   summary_metadata, appVars>>

AnalyzerExcept ==
    /\ \E n \in ShotNumbers : ExceptHandler(n)
    /\ UNCHANGED <<faults, detVars, recVars, is_active, current_session_id,
                   summary_metadata, appVars>>

SessionStart ==
    /\ StartSession
    /\ UNCHANGED <<detVars, recVars, anaVars, main_pc, liveVars>>

SessionEndOpen ==
    /\ \E opened \in BOOLEAN :
          /\ EndSessionOpen(opened)
          /\ Collaborator(opened \/ ~session_metadata.present)
    /\ UNCHANGED <<detVars, recVars, shots_submitted, analysis_callback, tasks,
                   video_files, current_shot_number, liveVars>>

SessionEndDump ==
    /\ EndSessionDump
    /\ UNCHANGED <<detVars, recVars, shots_submitted, analysis_callback, tasks,
                   video_files, faults, current_shot_number, liveVars>>

SessionUpdateSummaryLoad ==
    /\ UpdateSummaryLoad
    /\ UNCHANGED <<detVars, recVars, shots_submitted, analysis_callback, tasks,
                   video_files, faults, current_shot_number, liveVars>>

SessionUpdateSummaryOpen ==
    /\ \E opened \in BOOLEAN : UpdateSummaryOpen(opened) /\ Collaborator(opened)
    /\ UNCHANGED <<detVars, recVars, shots_submitted, analysis_callback, tasks,
                   video_files, current_shot_number, liveVars>>

SessionUpdateSummaryDump ==
    /\ UpdateSummaryDump
    /\ UNCHANGED <<detVars, recVars, shots_submitted, analysis_callback, tasks,
                   video_files, faults, current_shot_number, liveVars>>

AnalyzerNext ==
    \/ SessionStart
    \/ AnalyzerSubmit
    \/ AnalyzerSaveVideo
    \/ AnalyzerDetermineResult
    \/ AnalyzerGenerateCritique
    \/ AnalyzerAddTextOverlay
    \/ AnalyzerLoadMetadata
    \/ AnalyzerOpenMetadataFile
    \/ AnalyzerDumpMetadata
    \/ AnalyzerCallback
    \/ AnalyzerExcept

\* the analyzer with callers that pass a callback or none
CallbackNext ==
    \/ SessionStart
    \/ AnalyzerSubmitWith
    \/ AnalyzerSaveVideo
    \/ AnalyzerDetermineResult
    \/ AnalyzerGenerateCritique
    \/ AnalyzerAddTextOverlay
    \/ AnalyzerLoadMetadata
    \/ AnalyzerOpenMetadataFile
    \/ AnalyzerDumpMetadata
    \/ AnalyzerCallback
    \/ AnalyzerExcept

(***************************************************************************)
(* The live loop: VideoThread.run with the detector's callback             *)
(* MainWindow.on_shot_detected, which runs on that thread, and the slot     *)
(* MainWindow.process_shot, which the timer runs on the GUI thread.         *)
(***************************************************************************)
\* the landmarks the pose detector reports in the live loop: none, or the
\* right arm at rest or raised
LiveLandmarkChoices ==
    {NoLandmarks}
    \cup {[detected |-> TRUE, right |-> r, left |-> Absent] :
             r \in {PoseRest, PoseUp}}

\* `with self.recording_lock` can be entered
LockIgnored(lock) == TRUE
LockAvailable(lock) == lock = None

\* variant of ShotAccepted: on_shot_detected goes on without a session
ShotAlwaysAccepted(active) == TRUE
\* on_shot_detected, lines 735-736: without an active session it returns
ShotAccepted(active) == active

\* VideoThread.run, lines 47-111: read a frame, add it to the ring and run
\* the detector on it; on_shot_detected, lines 735-738, if the detector calls
\* it
LiveFrame(landmarks) ==
    /\ video_pc = "read"
    /\ frames_read < MaxLiveFrames
    /\ frames_read' = frames_read + 1
    /\ AddFrame(Frame(frames_read + 1))
    /\ ProcessFrame(Frame(frames_read + 1), landmarks)
    /\ armed_now' = (is_shooting' /\ ~is_shooting)
    /\ IF signalled' /\ ShotAccepted(is_active)
       THEN /\ current_shot_number' = current_shot_number + 1
            /\ video_pc' = "start_recording"
       ELSE /\ current_shot_number' = current_shot_number
            /\ video_pc' = "check_recording"
    /\ opened_now' = FALSE
    /\ UNCHANGED <<obsVars, timers, recording_lock, main_pc, process_shot_frames>>

\* on_shot_detected, line 741: start_recording enters the lock
LiveEnterStartRecording ==
    /\ video_pc = "start_recording"
    /\ LockAvailable(recording_lock)
    /\ recording_lock' = "video"
    /\ video_pc' = "snapshot"
    /\ UNCHANGED <<recVars, current_shot_number, timers, main_pc,
                   process_shot_frames, armed_now, opened_now>>

\* start_recording under the lock, and on_shot_detected, line 744
LiveStartRecording ==
    /\ video_pc = "snapshot"
    /\ StartRecording
    /\ recording_lock' = None
    /\ timers' = timers + 1
    /\ opened_now' = TRUE
    /\ video_pc' = "check_recording"
    /\ UNCHANGED <<frames_read, current_shot_number, main_pc,
                   process_shot_frames, armed_now>>

\* VideoThread.run, line 134, and add_recording_frame, line 50
LiveCheckRecording ==
    /\ video_pc = "check_recording"
    /\ video_pc' = IF is_recording THEN "append" ELSE "read"
    /\ UNCHANGED <<recVars, current_shot_number, timers, recording_lock, main_pc,
                   process_shot_frames, armed_now, opened_now>>

\* add_recording_frame, line 51, for the frame of this iteration
LiveAppend ==
    /\ video_pc = "append"
    /\ current_video_frames' = Append(current_video_frames, Frame(frames_read))
    /\ appended_since_begin' = Append(appended_since_begin, Frame(frames_read))
    /\ last_call' = Called("add_recording_frame", Frame(frames_read))
    /\ video_pc' = "read"
    /\ UNCHANGED <<frame_buffer, is_recording, frames_read, returned,
                   ring_at_begin, current_shot_number, timers, recording_lock,
                   main_pc, process_shot_frames, armed_now, opened_now>>

\* the timer of on_shot_detected fires: process_shot, line 749, and
\* stop_recording, lines 59-61
ProcessShotStop ==
    /\ main_pc = "idle"
    /\ timers > 0
    /\ LockAvailable(recording_lock)
    /\ timers' = timers - 1
    /\ recording_lock' = "main"
    /\ is_recording' = FALSE
    /\ process_shot_frames' = FramesCopy(current_video_frames)
    /\ main_pc' = "stop_recording"
    /\ UNCHANGED <<frame_buffer, current_video_frames, frames_read, returned,
                   last_call, ring_at_begin, appended_since_begin,
                   current_shot_number, video_pc, armed_now, opened_now>>

\* stop_recording, lines 62-63, and process_shot, lines 751-752
ProcessShotClear ==
    /\ main_pc = "stop_recording"
    /\ current_video_frames' = << >>
    /\ returned' = process_shot_frames
    /\ last_call' = [op |-> "stop_recording", frame |-> NoFrame,
                     was_recording |-> TRUE]
    /\ recording_lock' = None
    /\ main_pc' = IF process_shot_frames = << >> THEN "idle" ELSE "analyze_shot"
    /\ UNCHANGED <<frame_buffer, is_recording, frames_read, ring_at_begin,
                   appended_since_begin, current_shot_number, timers, video_pc,
                   process_shot_frames, armed_now, opened_now>>

\* process_shot, lines 755-767
ProcessShotAnalyze ==
    /\ main_pc = "analyze_shot"
    /\ AnalyzeShot(current_session_id, current_shot_number, process_shot_frames,
                   "on_shot_analyzed")
    /\ process_shot_frames' = << >>
    /\ main_pc' = "idle"
    /\ UNCHANGED <<current_shot_number, timers, recording_lock, video_pc,
                   armed_now, opened_now>>

LiveLoopFrame ==
    /\ \E landmarks \in LiveLandmarkChoices : LiveFrame(landmarks)
    /\ UNCHANGED <<anaVars, sesVars>>

LiveLoopEnterStartRecording ==
    /\ LiveEnterStartRecording
    /\ UNCHANGED <<detVars, anaVars, sesVars>>

LiveLoopStartRecording ==
    /\ LiveStartRecording
    /\ UNCHANGED <<detVars, anaVars, sesVars>>

LiveLoopCheckRecording ==
    /\ LiveCheckRecording
    /\ UNCHANGED <<detVars, anaVars, sesVars>>

LiveLoopAppend ==
    /\ LiveAppend
    /\ UNCHANGED <<detVars, anaVars, sesVars>>

LiveProcessShotStop ==
    /\ ProcessShotStop
    /\ UNCHANGED <<detVars, anaVars, sesVars>>

LiveProcessShotClear ==
    /\ ProcessShotClear
    /\ UNCHANGED <<detVars, anaVars, sesVars>>

LiveProcessShotAnalyze ==
    /\ ProcessShotAnalyze
    /\ UNCHANGED <<detVars, recVars, sesVars, faults>>

\* the capture thread, and the GUI thread from the start of a session on; the
\* analysis threads stand where analyze_shot started them
LiveNext ==
    \/ LiveLoopFrame
    \/ LiveLoopEnterStartRecording
    \/ LiveLoopStartRecording
    \/ LiveLoopCheckRecording
    \/ LiveLoopAppend
    \/ LiveProcessShotStop
    \/ LiveProcessShotClear
    \/ LiveProcessShotAnalyze
    \/ SessionStart

\* the analyzer's threads and the session slots of the GUI thread
SessionNext ==
    \/ AnalyzerNext
    \/ SessionEndOpen
    \/ SessionEndDump
    \/ SessionUpdateSummaryLoad
    \/ SessionUpdateSummaryOpen
    \/ SessionUpdateSummaryDump

\* MainWindow.__init__, lines 180-226, and VideoThread before run
AppInit ==
    /\ current_shot_number = 0
    /\ timers = 0
    /\ recording_lock = None
    /\ video_pc = "read"
    /\ main_pc = "idle"
    /\ process_shot_frames = << >>
    /\ armed_now = FALSE
    /\ opened_now = FALSE

Init == DetectorInit /\ RecorderInit /\ AnalyzerInit /\ SessionInit /\ AppInit

Next ==
    \/ DetectorNext \/ RecorderNext \/ SessionNext \/ LiveNext \/ CallbackNext
    \/ ArmingFrame \/ EpisodeFrame \/ SideFrame \/ CooldownFrame \/ VelocityFrame

SpecLive == Init /\ [][LiveNext]_vars

SpecSession == Init /\ [][SessionNext]_vars

SpecRecorder == Init /\ [][RecorderNext]_vars

SpecAnalyzer == Init /\ [][AnalyzerNext]_vars

SpecCallbacks == Init /\ [][CallbackNext]_vars

SpecDetector == Init /\ [][DetectorNext]_vars

SpecArming == Init /\ [][ArmingFrame]_vars

SpecEpisode == Init /\ [][EpisodeFrame]_vars

SpecSides == Init /\ [][SideFrame]_vars

SpecCooldown == Init /\ [][CooldownFrame]_vars
SpecVelocity == Init /\ [][VelocityFrame]_vars

Spec == Init /\ [][Next]_vars

(***************************************************************************)
(* Properties of the detector.                                             *)
(***************************************************************************)
\* C1: as long as every frame processed so far had no arm (right or left) whose
\* wrist, elbow and shoulder are all above the confidence threshold, or had no
\* landmarks at all, the detector is Idle (is_shooting false, nothing
\* signalled, no arm chosen) and shot_callback has never been invoked.
C1_LowConfidenceStaysIdle ==
    low_confidence_only =>
        /\ ~is_shooting
        /\ ~shot_detected
        /\ shooting_arm = None
        /\ ~callback_invoked

\* C1 witness: unresolvable frames have been processed, one after the other,
\* up to the point where the next one resets the detector.
C1_Witness ==
    /\ low_confidence_only
    /\ frames_since_release = max_frames_after_release + 1

\* C2: between an arming and the next reset to Idle, shot_callback is invoked
\* at most once, however many frames of the episode meet a completion
\* condition.
C2_AtMostOneEventEnd == episode_callbacks <= 1

\* C2 witness: an armed episode in which a second frame met a completion
\* condition after the callback had been invoked.
C2_Witness ==
    /\ is_shooting
    /\ shot_detected
    /\ end_condition_hits >= 2
    /\ episode_callbacks = 1

\* C23: the step that arms the detector is made on a frame whose tracked limb
\* has wrist, elbow and shoulder above the confidence threshold, and the sample
\* of that frame has the wrist inside the arming band, a wrist velocity over
\* the window that is upward beyond the threshold, the wrist above the
\* shoulder by more than the margin, and a forearm longer than at the start of
\* the window by more than the extension threshold; and as long as no frame had
\* the tracked wrist above the shoulder by more than the margin, the detector
\* is Idle and shot_callback has not been called.
C23_ArmingConditions ==
    /\ [][(is_shooting' /\ ~is_shooting)
            => LET n == Len(wrist_positions')
                   limb == TrackedLimb(last_landmarks')
                   velocity == CalculateVelocity(wrist_positions')
               IN /\ FrameResolvable(last_landmarks')
                  /\ n > 0
                  /\ wrist_positions'[n]
                        = PixelPos(limb.wrist, FrameShape.height, FrameShape.width)
                  /\ InArmingBand(wrist_positions'[n], FrameShape.height)
                  /\ velocity # NoTuple
                  /\ MovingUpward(velocity)
                  /\ 100 * (shoulder_positions'[n][2] - wrist_positions'[n][2])
                        > min_wrist_above_shoulder * FrameShape.height
                  /\ ExtensionIncreased(arm_extension_history'[n],
                                        arm_extension_history'[1])]_vars
    /\ [](never_above => (~is_shooting /\ shooting_arm = None /\ ~callback_invoked))

\* C23 witness: the detector has armed on a raised arm, after a window in
\* which the wrist had reached up without passing the shoulder margin.
C23_Witness ==
    /\ is_shooting
    /\ ~shot_detected
    /\ last_landmarks = RightArm(PoseUp)
    /\ \E i \in 1..Len(wrist_positions) :
          wrist_positions[i]
             = PixelPos(PoseReach.wrist, FrameShape.height, FrameShape.width)

\* C24 as stated: while the detector is Armed, an evaluated frame calls
\* shot_callback exactly if the wrist velocity is downward beyond the small
\* threshold, or the wrist is outside the band that arming asks for, or the
\* wrist is not above the shoulder by the margin.
C24_EndOnArmingBand ==
    [][(is_shooting /\ ~shot_detected /\ FrameEvaluated(last_landmarks'))
        => LET window == WristWindow(last_landmarks')
               limb == TrackedLimb(last_landmarks')
           IN signalled'
              <=> \/ MovingDownward(window)
                  \/ ~InArmingBand(window[Len(window)], FrameShape.height)
                  \/ ~WristOverShoulder(limb)]_vars

\* C24: while the detector is Armed, an evaluated frame calls shot_callback
\* exactly if the wrist velocity is downward beyond the small threshold, or
\* the wrist is lower than 0.95 or higher than 0.1 of the frame height (a
\* band wider than the one arming asks for), or the wrist is not above the
\* shoulder by the margin; and shot_callback is called on no other frame.
C24_EndOnCompletionBand ==
    /\ [][(is_shooting /\ ~shot_detected /\ FrameEvaluated(last_landmarks'))
            => LET window == WristWindow(last_landmarks')
                   limb == TrackedLimb(last_landmarks')
                   wrist_y == window[Len(window)][2]
               IN signalled'
                  <=> \/ MovingDownward(window)
                      \/ 100 * wrist_y > wrist_too_low * FrameShape.height
                      \/ 100 * wrist_y < wrist_too_high * FrameShape.height
                      \/ ~WristOverShoulder(limb)]_vars
    /\ [][signalled'
            => (is_shooting /\ ~shot_detected /\ FrameEvaluated(last_landmarks'))]_vars

\* C24 witness: an Armed detector has seen the wrist rise above the arming
\* band and is still Armed.
C24_Witness ==
    /\ is_shooting
    /\ ~shot_detected
    /\ last_landmarks = RightArm(PoseHigh)
    /\ ~InArmingBand(wrist_positions[Len(wrist_positions)], FrameShape.height)

\* C25: the detector leaves Cooldown on the same frame count after the
\* completion frame in every episode: the reset that ends an episode, be it
\* on a later frame or on the completion frame itself, comes exactly
\* max_frames_after_release frames after shot_callback was called.
C25_FixedCooldownLength ==
    [][((shot_detected \/ signalled') /\ ~shot_detected')
        => frames_in_cooldown' = max_frames_after_release]_vars

\* C26: a frame without landmarks, or without a usable arm, that finds
\* frames_since_release at or below the maximum adds one to it and changes
\* nothing else: is_shooting, shot_detected, the tracked side and the four
\* histories are as before and shot_callback is not called; a frame of that
\* kind that finds the counter above the maximum resets the detector fully,
\* whatever its state was.
C26_MissingFrameCountsOrResets ==
    [][~FrameResolvable(last_landmarks')
        => /\ ~signalled'
           /\ callback_invoked' = callback_invoked
           /\ IF frames_since_release > max_frames_after_release
              THEN FullyReset'
              ELSE /\ frames_since_release' = frames_since_release + 1
                   /\ UNCHANGED <<is_shooting, shot_detected, shooting_arm,
                                  wrist_positions, elbow_positions,
                                  shoulder_positions, arm_extension_history>>]_vars

\* C26 witness: frames without a usable arm have taken the counter of an
\* Armed detector above the maximum with its histories kept; the next such
\* frame resets it.
C26_Witness ==
    /\ is_shooting
    /\ ~shot_detected
    /\ ~FrameResolvable(last_landmarks)
    /\ frames_since_release = max_frames_after_release + 1
    /\ Len(wrist_positions) >= min_history_frames

\* C27: outside Cooldown, a frame without a usable arm resets the detector
\* only when it ends a run of more than max_frames_after_release consecutive
\* frames without a usable arm.
C27_ResetAfterConsecutiveMisses ==
    [][(/\ missing_run' > 0
        /\ ~shot_detected
        /\ frames_since_release > max_frames_after_release)
        => missing_run' > max_frames_after_release]_vars

\* C28: from arming until the reset, every frame with a usable arm is
\* sampled on the side stored in shooting_arm at arming: the wrist sample
\* appended to wrist_positions is the wrist of that side.
C28_SideHeldForEpisode ==
    [][(is_shooting /\ is_shooting' /\ FrameResolvable(last_landmarks'))
        => wrist_positions'[Len(wrist_positions')] =
              PixelPos(IF shooting_arm = "left"
                       THEN last_landmarks'.left.wrist
                       ELSE last_landmarks'.right.wrist,
                       FrameShape.height, FrameShape.width)]_vars

\* C29: the detector arms, and calls shot_callback, only on a frame whose
\* wrist history has reached min_history_frames samples; an Armed or Cooldown
\* detector therefore always holds that many, and after a reset, which
\* empties the histories, it is Idle until they are refilled.
C29_NoTransitionOnShortHistory ==
    /\ [](is_shooting => Len(wrist_positions) >= min_history_frames)
    /\ [][(~is_shooting /\ is_shooting')
            => Len(wrist_positions') >= min_history_frames]_vars
    /\ [][signalled' => Len(wrist_positions) + 1 >= min_history_frames]_vars
    /\ [][(wrist_positions' = << >> /\ wrist_positions # << >>)
            => ~is_shooting']_vars

\* C29 witness: a detector that had signalled a shot was reset, refilled its
\* histories and armed again.
C29_Witness ==
    /\ is_shooting
    /\ ~shot_detected
    /\ callback_invoked
    /\ episode_callbacks = 0
    /\ Len(wrist_positions) >= min_history_frames

\* C30: a detector that is shooting does not arm again: while is_shooting
\* stays set, shot_detected is not taken back, the tracked side is kept and
\* frames_since_release does not fall; and is_shooting is only ever cleared
\* by a full reset, which empties the histories and clears the side, the
\* signalled flag and the counter, so that a full reset lies between any two
\* armings.
C30_OneEpisodeAtATime ==
    /\ [][(is_shooting /\ is_shooting')
            => /\ shot_detected => shot_detected'
               /\ shooting_arm' = shooting_arm
               /\ frames_since_release' >= frames_since_release]_vars
    /\ [][(is_shooting /\ ~is_shooting') => FullyReset']_vars
    /\ [][(~is_shooting /\ is_shooting')
            => (~shot_detected /\ shooting_arm = None)]_vars

\* C30 witness: an Armed detector whose counter has been raised by a frame
\* without landmarks has just tracked a frame on which every arming condition
\* holds again, and stayed as it was.
C30_Witness ==
    /\ is_shooting
    /\ ~shot_detected
    /\ frames_since_release > 0
    /\ FrameResolvable(last_landmarks)
    /\ LET n == Len(wrist_positions)
           velocity == CalculateVelocity(wrist_positions)
       IN /\ n >= min_history_frames
          /\ velocity # NoTuple
          /\ MovingUpward(velocity)
          /\ InArmingBand(wrist_positions[n], FrameShape.height)
          /\ WristOverShoulder(TrackedLimb(last_landmarks))
          /\ ExtensionIncreased(arm_extension_history[n],
                                arm_extension_history[1])

\* C31: a detector does not stay Armed while the landmarks are missing:
\* whenever the last max_frames_after_release + 2 frames or more were all
\* without a usable arm, the detector is not shooting and its four histories
\* are empty; and the frame without a usable arm that finds the counter of an
\* Armed detector above the maximum resets it.
C31_ArmedTimesOut ==
    /\ [](missing_run > max_frames_after_release + 1
            => /\ ~is_shooting
               /\ ~shot_detected
               /\ shooting_arm = None
               /\ wrist_positions = << >>
               /\ elbow_positions = << >>
               /\ shoulder_positions = << >>
               /\ arm_extension_history = << >>)
    /\ [][(/\ is_shooting
            /\ ~shot_detected
            /\ missing_run' > missing_run
            /\ frames_since_release > max_frames_after_release)
            => (FullyReset' /\ ~signalled')]_vars

\* C31 witness: an Armed detector that met no completion condition has lost
\* the landmarks for max_frames_after_release + 1 frames in a row, all of them
\* counted; the next frame without landmarks resets it.
C31_Witness ==
    /\ is_shooting
    /\ ~shot_detected
    /\ ~callback_invoked
    /\ missing_run = max_frames_after_release + 1
    /\ frames_since_release = max_frames_after_release + 1

\* C32: on a frame that arms the detector or calls shot_callback, the
\* divisor of the wrist velocity is the number of frames processed between
\* the oldest and the newest entry of wrist_positions, frames without a usable
\* arm included.
C32_VelocityPerElapsedFrame ==
    [][(/\ signalled' \/ (is_shooting' /\ ~is_shooting)
        /\ wrist_positions' # << >>)
        => CalculateVelocity(wrist_positions')[3]
              = (Len(sample_gaps') - 1) + SumFrom(sample_gaps', 2)]_vars

(***************************************************************************)
(* Properties of the recorder.                                             *)
(***************************************************************************)
\* C3: the pre-roll ring never holds more than buffer_size frames, and
\* add_frame on a full ring drops exactly the oldest frame and puts the new
\* one at the newest end.
C3_RingBounded ==
    /\ [](Len(frame_buffer) <= buffer_size)
    /\ [][(/\ last_call'.op = "add_frame"
           /\ last_call'.frame # NoFrame
           /\ Len(frame_buffer) = buffer_size)
          => frame_buffer' = Append(Tail(frame_buffer), last_call'.frame)]_vars

\* C3 witness: add_frame has just been called on a ring that was already
\* full of later frames than the first ones.
C3_Witness ==
    /\ last_call.op = "add_frame"
    /\ last_call.frame # NoFrame
    /\ Len(frame_buffer) = buffer_size
    /\ frames_read > buffer_size
    /\ frame_buffer[1] # Frame(1)

\* C4: stop_recording right after start_recording, with no frame taken by
\* add_recording_frame in between, returns the ring as it was at
\* start_recording, oldest first, whatever add_frame did in between.
C4_SnapshotReturned ==
    (/\ last_call.op = "stop_recording"
     /\ last_call.was_recording
     /\ appended_since_begin = << >>)
    => returned = ring_at_begin

\* C4 witness: such a stop_recording, after add_frame changed a non-empty
\* ring between the two calls.
C4_Witness ==
    /\ last_call.op = "stop_recording"
    /\ last_call.was_recording
    /\ appended_since_begin = << >>
    /\ ring_at_begin # << >>
    /\ frame_buffer # ring_at_begin
    /\ returned = ring_at_begin

\* C5: with k frames in the ring at start_recording and m frames taken by
\* add_recording_frame before stop_recording, stop_recording returns k + m
\* frames: the ring's k frames in ring order, then the m frames in the order
\* they were added.
C5_PreRollThenAppended ==
    (last_call.op = "stop_recording" /\ last_call.was_recording)
    => /\ Len(returned) = Len(ring_at_begin) + Len(appended_since_begin)
       /\ SubSeq(returned, 1, Len(ring_at_begin)) = ring_at_begin
       /\ SubSeq(returned, Len(ring_at_begin) + 1, Len(returned))
             = appended_since_begin

\* C5 witness: a full ring at start_recording and at least two frames added
\* before stop_recording.
C5_Witness ==
    /\ last_call.op = "stop_recording"
    /\ last_call.was_recording
    /\ Len(ring_at_begin) = buffer_size
    /\ Len(appended_since_begin) >= 2
    /\ Len(returned) = buffer_size + Len(appended_since_begin)

(***************************************************************************)
(* Properties of the analyzer.                                             *)
(***************************************************************************)
\* the calls of the completion callback made so far, as <<thread, position>>
CallbacksDelivered ==
    {c \in ShotNumbers \X (1..(Len(StageOrder) + 1)) :
        c[2] <= Len(tasks[c[1]].delivered)}

\* every thread that has been started has ended
AllTasksEnded ==
    \A n \in ShotNumbers : tasks[n].pc \in {"unsubmitted", "done"}

\* threads that analyze_shot started and that have not ended
TasksRunning ==
    {n \in ShotNumbers : tasks[n].pc \notin {"unsubmitted", "done"}}

\* the stages of the try block a thread has entered, without the handler
BodyStages(task) ==
    IF task.stages # << >> /\ task.stages[Len(task.stages)] = "except"
    THEN SubSeq(task.stages, 1, Len(task.stages) - 1)
    ELSE task.stages

\* C17: after stop_recording the recorder is not recording and its list of
\* recording frames is empty; stop_recording leaves the ring as it is; a
\* stop_recording that finds no recording open returns an empty list; and
\* add_recording_frame changes nothing while no recording is open.
C17_StopClosesAndClears ==
    /\ [](last_call.op = "stop_recording"
            => (~is_recording /\ current_video_frames = << >>))
    /\ [][last_call'.op = "stop_recording"
            => /\ frame_buffer' = frame_buffer
               /\ ~is_recording'
               /\ ~is_recording => returned' = << >>]_vars
    /\ [][(~is_recording /\ last_call'.op = "add_recording_frame")
            => (current_video_frames' = current_video_frames /\ ~is_recording')]_vars

\* C17 witness: a second stop_recording in a row, after a recording that
\* began with frames in the ring, has returned an empty list.
C17_Witness ==
    /\ last_call.op = "stop_recording"
    /\ ~last_call.was_recording
    /\ returned = << >>
    /\ ring_at_begin # << >>
    /\ frame_buffer # << >>

\* C6: the completion callback is called at most once for a submitted task,
\* and exactly once when the task's thread has ended, whatever stage ended it.
C6_CallbackExactlyOnce ==
    \A n \in ShotNumbers :
        /\ Len(tasks[n].delivered) <= 1
        /\ tasks[n].pc = "done" => Len(tasks[n].delivered) = 1

\* C7: when MaxShots shots were submitted and all their threads have ended,
\* in whatever order, the completion callback has been called MaxShots times
\* and the calls carry the MaxShots different shot numbers, each the number
\* of the submission that made the call.
C7_NCallbacksDistinctNumbers ==
    (shots_submitted = MaxShots /\ AllTasksEnded)
    => /\ Cardinality(CallbacksDelivered) = MaxShots
       /\ {tasks[c[1]].delivered[c[2]].shot_number : c \in CallbacksDelivered}
             = ShotNumbers
       /\ \A c \in CallbacksDelivered :
             tasks[c[1]].delivered[c[2]].shot_number = c[1]

\* C8: when two tasks of the session have gone through add_shot_metadata, in
\* any interleaving and with no collaborator failing, and every thread has
\* ended, the session's file is complete, holds the records of both shots as
\* the tasks wrote them, and has total_shots = 2.
C8_BothRecordsKept ==
    LET reached == {n \in ShotNumbers :
                       \E i \in 1..Len(tasks[n].stages) :
                           tasks[n].stages[i] = "add_shot_metadata"}
    IN (faults = 0 /\ AllTasksEnded /\ Cardinality(reached) = 2)
       => /\ metadata_file.exists
          /\ metadata_file.complete
          /\ metadata_file.content.total_shots = 2
          /\ \A n \in reached :
                /\ tasks[n].recorded # NoShotData
                /\ \E i \in 1..Len(metadata_file.content.shots) :
                      metadata_file.content.shots[i] = tasks[n].recorded

\* C9: a task whose result request failed in the Gemini service has the
\* result missed (shot_made False) from then on, and when its thread has
\* ended it has run every stage, has recorded the shot as missed and has
\* called the callback once, with a video path that is not None.
C9_ClassifierErrorDefaultsToMissed ==
    \A n \in ShotNumbers :
        tasks[n].classifier_raised
        => /\ tasks[n].shot_made = "False"
           /\ tasks[n].pc = "done"
              => /\ tasks[n].stages = StageOrder
                 /\ tasks[n].recorded # NoShotData
                 /\ tasks[n].recorded.shot_made = "False"
                 /\ Len(tasks[n].delivered) = 1
                 /\ tasks[n].delivered[1].video_path # NoPath

\* C10: the stages a task's thread has entered are the first ones of save
\* video, determine result, generate critique, add overlay, add metadata,
\* callback, in that order with none left out or repeated, and the stage the
\* thread is about to enter is the one after the last it entered; nothing
\* relates the stages of different tasks.
C10_StagesInOrder ==
    \A n \in ShotNumbers :
        LET body == BodyStages(tasks[n])
        IN /\ Len(body) <= Len(StageOrder)
           /\ body = SubSeq(StageOrder, 1, Len(body))
           /\ (\E i \in 1..Len(StageOrder) : StageOrder[i] = tasks[n].pc)
              => /\ Len(body) < Len(StageOrder)
                 /\ StageOrder[Len(body) + 1] = tasks[n].pc

\* C10 witness: the second task has run all six stages and ended while the
\* first task, submitted before it, stands between two of its stages.
C10_Witness ==
    /\ tasks[1].pc = "add_text_overlay"
    /\ tasks[1].stages = SubSeq(StageOrder, 1, 3)
    /\ tasks[2].pc = "done"
    /\ tasks[2].stages = StageOrder

\* C12: a task whose save_video failed ends without a result, a critique or a
\* shot record, and has reported the failure by one call of the callback.
C12_RawSaveFailureReported ==
    \A n \in ShotNumbers :
        (tasks[n].pc = "done" /\ BodyStages(tasks[n]) = <<"save_video">>)
        => /\ tasks[n].shot_made = None
           /\ tasks[n].critique = None
           /\ tasks[n].recorded = NoShotData
           /\ Len(tasks[n].delivered) = 1

\* the path label of a result
ResultLabel(shot_made) == IF shot_made = "True" THEN "made" ELSE "missed"

\* C13: a task whose critique request failed in the Gemini service has the
\* error text as its critique and goes on to the overlay and to
\* add_shot_metadata; when it has ended without an exception in a later stage,
\* the shot record holds the error text and the callback was called once with
\* the error text and a video path that is not None.
C13_FeedbackFailureCarried ==
    \A n \in ShotNumbers :
        LET task == tasks[n]
            body == BodyStages(task)
        IN task.critique_raised
           => /\ task.critique = "Error analyzing video"
              /\ Len(body) = 3 => task.pc = "add_text_overlay"
              /\ Len(body) = 4 => task.pc = "add_shot_metadata"
              /\ (task.pc = "done" /\ task.stages = StageOrder)
                 => /\ task.recorded # NoShotData
                    /\ task.recorded.critique = "Error analyzing video"
                    /\ Len(task.delivered) = 1
                    /\ task.delivered[1].critique = "Error analyzing video"
                    /\ task.delivered[1].video_path # NoPath

\* C13 witness: such a task has ended after all six stages.
C13_Witness ==
    \E n \in ShotNumbers :
        /\ tasks[n].critique_raised
        /\ tasks[n].pc = "done"
        /\ tasks[n].stages = StageOrder
        /\ tasks[n].delivered[1].critique = "Error analyzing video"

\* C14: once the overlay stage of a task is over the task goes on to
\* add_shot_metadata, and its final video path is the path with the overlay
\* if that file was rendered and otherwise the path of the clip without
\* overlay that the earlier stages left; the file at that path exists, and
\* the shot record and the callback of the try block carry that path.
C14_OverlayFallback ==
    \A n \in ShotNumbers :
        LET task == tasks[n]
            body == BodyStages(task)
            overlaid == GetShotVideoPath(task.session_id, task.shot_number,
                                         task.shot_made, TRUE)
        IN Len(body) >= 4
           => /\ Len(body) = 4 => task.pc = "add_shot_metadata"
              /\ task.final_video_path =
                    IF overlaid \in video_files THEN overlaid
                    ELSE task.initial_video_path
              /\ task.final_video_path \in video_files
              /\ task.recorded # NoShotData
                 => task.recorded.video_path = task.final_video_path
              /\ (Len(body) = 6 /\ task.delivered # << >>)
                 => task.delivered[1].video_path = task.final_video_path

\* C14 witness: a task whose overlay failed has ended after all six stages,
\* with the clip without overlay in its record and in its callback.
C14_Witness ==
    \E n \in ShotNumbers :
        /\ tasks[n].pc = "done"
        /\ tasks[n].stages = StageOrder
        /\ ~tasks[n].final_video_path.with_critique
        /\ tasks[n].final_video_path = tasks[n].initial_video_path
        /\ tasks[n].recorded.video_path = tasks[n].initial_video_path
        /\ tasks[n].delivered[1].video_path = tasks[n].initial_video_path

\* C15: save_video writes the clip at the path labelled missed; from the end
\* of the result stage on, the clip is at the path labelled with the result
\* (moved there, not copied, if the result is made), and the final path and
\* the shot record carry the label of the result they go with.
C15_ClipAtOutcomePath ==
    \A n \in ShotNumbers :
        LET task == tasks[n]
            body == BodyStages(task)
            missed == GetShotVideoPath(task.session_id, task.shot_number,
                                       "False", FALSE)
        IN /\ (Len(body) = 1 /\ task.pc = "determine_shot_result")
              => (task.initial_video_path = missed /\ missed \in video_files)
           /\ Len(body) >= 2
              => /\ task.initial_video_path =
                       GetShotVideoPath(task.session_id, task.shot_number,
                                        task.shot_made, FALSE)
                 /\ task.initial_video_path \in video_files
                 /\ task.shot_made = "True" => missed \notin video_files
           /\ Len(body) >= 4
              => task.final_video_path.result = ResultLabel(task.shot_made)
           /\ task.recorded # NoShotData
              => task.recorded.video_path.result
                    = ResultLabel(task.recorded.shot_made)

\* C15 witness: a task whose shot was found made has ended with the clip
\* under the made label in its record.
C15_Witness ==
    \E n \in ShotNumbers :
        /\ tasks[n].pc = "done"
        /\ tasks[n].stages = StageOrder
        /\ tasks[n].shot_made = "True"
        /\ tasks[n].recorded.video_path.result = "made"
        /\ tasks[n].initial_video_path \in video_files

\* C19: once end_session is over (the session was started, is no longer
\* active, and the slot of the GUI thread has returned), no step changes the
\* list of shots or the counters total_shots, shots_made and shots_missed of
\* the session's metadata file.
C19_FrozenAfterEndSession ==
    [][(~is_active /\ current_session_id # None /\ main_pc = "idle")
        => /\ metadata_file'.content.shots = metadata_file.content.shots
           /\ metadata_file'.content.total_shots = metadata_file.content.total_shots
           /\ metadata_file'.content.shots_made = metadata_file.content.shots_made
           /\ metadata_file'.content.shots_missed
                 = metadata_file.content.shots_missed]_vars

\* C21: a task whose write of the shot record failed (the metadata file
\* could not be opened for writing) goes to the exception handler, writes no
\* record, and ends with exactly one call of the callback, which carries the
\* error text and no video path; the failing step changes no other task and
\* not the metadata file, and the tasks still in flight can take their next
\* step.
C21_WriteFailureReported ==
    /\ [](\A n \in ShotNumbers :
            tasks[n].write_failed
            => /\ tasks[n].pc \in {"except", "done"}
               /\ tasks[n].recorded = NoShotData
               /\ tasks[n].pc = "except" => tasks[n].delivered = << >>
               /\ tasks[n].pc = "done"
                  => /\ Len(tasks[n].delivered) = 1
                     /\ tasks[n].delivered[1].video_path = NoPath
                     /\ tasks[n].delivered[1].critique = "Error"
               /\ (TasksRunning \ {n}) # {}
                  => ENABLED (\/ AnalyzerSaveVideo
                              \/ AnalyzerDetermineResult
                              \/ AnalyzerGenerateCritique
                              \/ AnalyzerAddTextOverlay
                              \/ AnalyzerLoadMetadata
                              \/ AnalyzerOpenMetadataFile
                              \/ AnalyzerDumpMetadata
                              \/ AnalyzerCallback
                              \/ AnalyzerExcept))
    /\ [][\A n \in ShotNumbers :
            (tasks'[n].write_failed /\ ~tasks[n].write_failed)
            => /\ \A m \in ShotNumbers \ {n} : tasks'[m] = tasks[m]
               /\ metadata_file' = metadata_file
               /\ video_files' = video_files]_vars

\* C21 witness: a task has ended after its write failed, and another task
\* has ended with its record written.
C21_Witness ==
    \E n, m \in ShotNumbers :
        /\ tasks[n].write_failed
        /\ tasks[n].pc = "done"
        /\ tasks[n].delivered # << >>
        /\ tasks[m].pc = "done"
        /\ tasks[m].stages = StageOrder
        /\ tasks[m].recorded # NoShotData

\* C22: a task that was given an empty list of frames enters no stage after
\* save_video, so that neither the Gemini service nor FFmpeg is called for
\* it, and has reported the empty capture by a call of the callback when it
\* has ended.
C22_EmptyCaptureReported ==
    \A n \in ShotNumbers :
        (tasks[n].pc # "unsubmitted" /\ tasks[n].frames = << >>)
        => /\ \A i \in 1..Len(tasks[n].stages) : tasks[n].stages[i] = "save_video"
           /\ tasks[n].pc = "done" => tasks[n].delivered # << >>

\* C33: the list of shots of the session's file is append-only: every write
\* that completes the file leaves the records the file held before it in
\* place, unchanged and in the same positions, the write of end_session
\* included.
C33_ShotListAppendOnly ==
    [][metadata_file'.complete
        => /\ Len(metadata_file.content.shots)
                 <= Len(metadata_file'.content.shots)
           /\ \A i \in 1..Len(metadata_file.content.shots) :
                 metadata_file'.content.shots[i]
                    = metadata_file.content.shots[i]]_vars

\* C35: whenever the session's file is completely written, its total_shots
\* is the number of its shot records, its shots_made the number of records
\* with shot_made true, and shots_made + shots_missed = total_shots; the same
\* holds of the session manager's copy, which is what end_session writes.
C35_CountersMatchRecords ==
    LET written == IF metadata_file.exists /\ metadata_file.complete
                   THEN {metadata_file.content} ELSE {}
        kept == IF session_metadata.present
                THEN {session_metadata.content} ELSE {}
    IN \A content \in written \cup kept :
          LET made == {i \in 1..Len(content.shots) :
                          content.shots[i].shot_made = "True"}
          IN /\ content.total_shots = Len(content.shots)
             /\ content.shots_made = Cardinality(made)
             /\ content.shots_made + content.shots_missed = content.total_shots

\* C35 witness: both tasks have ended and the file lists a made and a missed
\* shot, which the manager's copy has too.
C35_Witness ==
    /\ AllTasksEnded
    /\ metadata_file.exists
    /\ metadata_file.complete
    /\ Len(metadata_file.content.shots) = 2
    /\ metadata_file.content.shots_made = 1
    /\ metadata_file.content.shots_missed = 1
    /\ session_metadata.present
    /\ Len(session_metadata.content.shots) = 2

\* C36: every callable a task calls is the callback argument of its own
\* analyze_shot call, and a task that was given a callback and has ended
\* after going beyond save_video has called it.
C36_OwnCallbackInvoked ==
    \A n \in ShotNumbers :
        /\ \A i \in 1..Len(tasks[n].invoked) :
               tasks[n].invoked[i] = tasks[n].callback
        /\ (/\ tasks[n].pc = "done"
            /\ tasks[n].callback # None
            /\ Len(tasks[n].stages) >= 2)
           => tasks[n].invoked # << >>

(***************************************************************************)
(* Properties of the live loop.                                            *)
(***************************************************************************)
\* C11: whatever number of analysis threads stand at a stage, the GUI thread
\* that has reached the analyze_shot call of process_shot can make it (up to
\* MaxShots calls), and the capture thread can take its next step: read and
\* process a frame (up to MaxLiveFrames frames), check the recording flag,
\* append the frame, and enter start_recording when no thread is in the lock.
C11_SubmitDoesNotWait ==
    /\ (main_pc = "analyze_shot" /\ shots_submitted < MaxShots)
       => ENABLED LiveProcessShotAnalyze
    /\ (video_pc = "read" /\ frames_read < MaxLiveFrames)
       => ENABLED LiveLoopFrame
    /\ (video_pc = "start_recording" /\ recording_lock = None)
       => ENABLED LiveLoopEnterStartRecording
    /\ video_pc = "snapshot" => ENABLED LiveLoopStartRecording
    /\ video_pc = "check_recording" => ENABLED LiveLoopCheckRecording
    /\ video_pc = "append" => ENABLED LiveLoopAppend

\* C11 witness: with the thread of the first shot still at its first stage,
\* the live loop has armed again, opened a recording and reached the
\* analyze_shot call for the second shot.
C11_Witness ==
    /\ TasksRunning = {1}
    /\ tasks[1].pc = "save_video"
    /\ main_pc = "analyze_shot"
    /\ current_shot_number = 2

\* C16 as stated: the ring is appended to only by a step that could take
\* recording_lock, so that add_frame and the snapshot of start_recording
\* exclude each other through that lock.
C16_ObserveUnderMutex ==
    [][frame_buffer' # frame_buffer => recording_lock = None]_vars

\* C16: the ring is not appended to while start_recording takes its
\* snapshot, and the snapshot is the ring as it stands, since add_frame and
\* start_recording are both steps of the capture thread; recording_lock is
\* held by start_recording and stop_recording only and keeps those two apart.
C16_SnapshotOnCaptureThread ==
    /\ [](video_pc = "snapshot" <=> recording_lock = "video")
    /\ [](main_pc = "stop_recording" <=> recording_lock = "main")
    /\ [][video_pc = "snapshot" => frame_buffer' = frame_buffer]_vars
    /\ [][(video_pc = "snapshot" /\ video_pc' # "snapshot")
            => current_video_frames' = frame_buffer]_vars

\* C16 witness: the snapshot is being taken while a timer of an earlier
\* detection is due, so that stop_recording waits for the lock.
C16_Witness ==
    /\ video_pc = "snapshot"
    /\ recording_lock = "video"
    /\ timers > 0
    /\ main_pc = "idle"
    /\ frame_buffer # << >>

\* C18 as stated: the detector calls shot_callback on the frame on which
\* is_shooting becomes true, and start_recording is called for that frame.
C18_SignalOnArming ==
    /\ armed_now => signalled
    /\ video_pc \in {"start_recording", "snapshot"} => armed_now
    /\ opened_now => armed_now

\* C18: the detector calls shot_callback not on the frame on which
\* is_shooting becomes true but on a later frame, the first one of the
\* episode that meets a completion condition; with a session active,
\* start_recording is called for that frame, before the next frame is read.
C18_SignalOnCompletion ==
    /\ armed_now => ~signalled
    /\ signalled => callback_invoked
    /\ video_pc \in {"start_recording", "snapshot"}
          => (signalled /\ ~armed_now /\ ~opened_now)
    /\ opened_now => (signalled /\ ~armed_now)

\* C18 witness: a recording has been opened for a frame that called
\* shot_callback, and the detector did not become armed on that frame.
C18_Witness ==
    /\ opened_now
    /\ signalled
    /\ ~armed_now
    /\ video_pc = "check_recording"
    /\ current_video_frames # << >>

\* C34: the tasks of a session carry strictly increasing shot numbers in the
\* order of their submission, so that no two of them have the same number.
C34_ShotNumbersIncrease ==
    \A m, n \in ShotNumbers :
        (m < n /\ tasks[m].pc # "unsubmitted" /\ tasks[n].pc # "unsubmitted")
           => tasks[m].shot_number < tasks[n].shot_number

\* C37: a frame that add_recording_frame has accepted is in the sequence the
\* concurrent stop_recording returns: nothing is appended to
\* current_video_frames between the copy and the clear of stop_recording,
\* where it would be dropped, and nothing is left in the list once
\* stop_recording has returned.
C37_AcceptedFrameReturned ==
    /\ main_pc = "stop_recording" => current_video_frames = process_shot_frames
    /\ (~is_recording /\ main_pc # "stop_recording")
          => current_video_frames = << >>

\* C38: no frame of the source is twice in a sequence stop_recording has
\* returned to process_shot.
C38_FrameOnceInCapture ==
    \A i, j \in 1..Len(returned) : returned[i] = returned[j] => i = j

\* C39: a frame on which the detector calls shot_callback while no session
\* is active leaves the shot number as it is, does not enter start_recording,
\* starts no timer, and changes neither the recording nor the tasks.
C39_SignalWithoutSessionIgnored ==
    [][(frames_read' # frames_read /\ signalled' /\ ~is_active)
        => /\ current_shot_number' = current_shot_number
           /\ video_pc' = "check_recording"
           /\ UNCHANGED <<is_recording, current_video_frames, timers,
                          shots_submitted, tasks, main_pc>>]_vars

\* C39 witness: the detector has called shot_callback on the frame just read,
\* before any session was started, and nothing was opened or counted.
C39_Witness ==
    /\ signalled
    /\ ~is_active
    /\ current_session_id = None
    /\ video_pc = "check_recording"
    /\ current_shot_number = 0
    /\ ~is_recording
    /\ timers = 0

\* C20: start_recording is never entered while a recording is open; at most
\* one timer of on_shot_detected is pending; and when no timer is pending
\* and neither thread is inside on_shot_detected or process_shot, there are
\* as many analyze_shot calls as recordings that were opened.
C20_OneCaptureInFlight ==
    /\ video_pc = "snapshot" => ~is_recording
    /\ timers <= 1
    /\ (main_pc = "idle" /\ timers = 0
          /\ video_pc \notin {"start_recording", "snapshot"})
       => shots_submitted = current_shot_number

====
